---- MODULE Spec2Model ----
(***************************************************************************)
(* Build driver, installer and plan executor of vcpkg                      *)
(* (toolsrc/src/vcpkg/build.cpp, which holds the Build and the Install     *)
(* namespaces).  Strings are sequences of one-character strings so that    *)
(* formatting, prefix stripping and lexicographic sorting are modelled by  *)
(* what they do to the characters.                                         *)
(***************************************************************************)
EXTENDS Integers, Sequences, FiniteSets, TLC

VARIABLES
    action_plan,       \* perform_and_exit_ex: the plan handed to the executor
    keep_going,        \* perform_and_exit_ex: KeepGoing::YES as TRUE
    feature_packages,  \* GlobalState::feature_packages
    counter,           \* perform_and_exit_ex: actions started so far
    results,           \* perform_and_exit_ex: std::vector<BuildResult> results
    pc,                \* position of the process
    result,            \* value returned by perform_install_plan_action, in flight
    cur,               \* package of the action being performed
    build_code,        \* ExtendedBuildResult.code of the last build_package call
    unmet,             \* ExtendedBuildResult.unmet_dependencies of that call
    fi,                \* install_package: features handled by the running loop
    output,            \* install_files_and_write_listfile: std::vector output
    status_db,         \* in-memory StatusParagraphs
    updates,           \* journal: the paragraphs written by write_update, in order
    sandbox,           \* packages/<name>_<triplet>/ : entries of each sandbox
    installed,         \* installed/ : entries of the install prefix
    listfiles,         \* installed/vcpkg/info/<fullstem>.list per package
    children,          \* child processes run so far
    install_result,    \* value returned by install_package, in flight
    removed_failed,    \* plan positions whose removal reported a failure
    killed_at,         \* position at which the process was terminated, if it was
    had_record,        \* whether the package had a journaled record when its action began
    return_code,       \* build_package: exit code of the build child (line 311)
    error_count,       \* build_package: errors the post-build checks counted (line 327)
    control_written,   \* build_package: write_binary_control_file was called (line 352)
    snap,              \* the disk and the status database when the action began
    console,           \* perform_install_plan_action: the lines it printed for the action
    call               \* the call of a parsing or selection function under check

vars == <<action_plan, keep_going, feature_packages, counter, results, pc, result,
          cur, build_code, unmet, fi, output, status_db, updates, sandbox,
          installed, listfiles, children, install_result, removed_failed, killed_at,
          had_record, return_code, error_count, control_written, snap, console, call>>

disk == <<updates, sandbox, installed, listfiles>>

-----------------------------------------------------------------------------
(* Bounds *)

MaxPlan == 2
MaxLintErrors == 1
MaxCopyFailures == 1
MaxInstances == 2

-----------------------------------------------------------------------------
(* Characters and strings *)

\* The characters the model uses, in ASCII order.
Alphabet == <<"/", "4", "6", "8", "B", "C", "D", "F", "I", "L", "N", "O", "R",
              "T", "U", "_", "b", "p", "q", "r", "s", "t", "u", "x">>

Code(c) == CHOOSE i \in 1..Len(Alphabet) : Alphabet[i] = c

\* std::string operator< : lexicographic on the character codes.
RECURSIVE StrLess(_, _)
StrLess(a, b) ==
    IF b = <<>> THEN FALSE
    ELSE IF a = <<>> THEN TRUE
    ELSE IF Head(a) = Head(b) THEN StrLess(Tail(a), Tail(b))
    ELSE Code(Head(a)) < Code(Head(b))

\* std::string::erase(0, n) / substr(n)
EraseFirst(s, n) == IF n >= Len(s) THEN <<>> ELSE SubSeq(s, n + 1, Len(s))

\* fs::path::filename(): the part after the last '/'
RECURSIVE Filename(_)
Filename(s) ==
    IF \E i \in 1..Len(s) : s[i] = "/"
    THEN Filename(EraseFirst(s, CHOOSE i \in 1..Len(s) : s[i] = "/"))
    ELSE s

Slash == <<"/">>
CONTROL_NAME == <<"C", "O", "N", "T", "R", "O", "L">>
BUILD_INFO_NAME == <<"B", "U", "I", "L", "D", "_", "I", "N", "F", "O">>

\* std::sort of a vector of strings (a set with multiplicities kept as a sequence)
SortStrings(seq) == SortSeq(seq, StrLess)

RECURSIVE SetToSeq(_)
SetToSeq(S) ==
    IF S = {} THEN <<>>
    ELSE LET x == CHOOSE y \in S : TRUE IN <<x>> \o SetToSeq(S \ {x})

Range(seq) == {seq[i] : i \in 1..Len(seq)}

\* std::set_intersection of two sorted ranges, by the merge it performs
RECURSIVE SetIntersection(_, _)
SetIntersection(a, b) ==
    IF a = <<>> \/ b = <<>> THEN <<>>
    ELSE IF StrLess(Head(a), Head(b)) THEN SetIntersection(Tail(a), b)
    ELSE IF StrLess(Head(b), Head(a)) THEN SetIntersection(a, Tail(b))
    ELSE <<Head(a)>> \o SetIntersection(Tail(a), Tail(b))

-----------------------------------------------------------------------------
(* Ports, triplets and what their builds produce *)

Pkgs == {"p", "q", "r"}

\* PackageSpec::name()
Name(pkg) == <<pkg>>

\* Triplet::canonical_name() of the spec of each package
TripletOf(pkg) == IF pkg = "s" THEN <<"x", "6", "4">> ELSE <<"x", "8", "6">>

\* SourceParagraph::depends after filter_dependencies(depends, triplet)
Depends(pkg) == IF pkg = "r" THEN {"p"} ELSE {}

\* feature paragraphs selected for the package (action.feature_list)
FeatureList(pkg) == IF pkg = "p" THEN <<"f">> ELSE <<>>

File(path) == [path |-> path, kind |-> "file"]
Dir(path) == [path |-> path, kind |-> "dir"]

\* the tree the port's build leaves in the sandbox, relative to the sandbox
Tree(pkg) ==
    IF pkg \in {"p", "q", "s"}
    THEN {Dir(<<"b">>), File(<<"b", "/", "t">>)}
    ELSE {Dir(<<"b">>), File(<<"b", "/", "u">>), File(<<"b", "/">> \o CONTROL_NAME)}

\* PackageSpec::dir(): <name>_<triplet>, the sandbox directory under packages/
PackageDir(pkg) == Name(pkg) \o <<"_">> \o TripletOf(pkg)

\* fs.get_files_recursive(package_dir): the paths below the sandbox, each with
\* the sandbox directory in front
GetFilesRecursive(pkg) ==
    {[path |-> PackageDir(pkg) \o Slash \o e.path, kind |-> e.kind] : e \in sandbox[pkg]}

-----------------------------------------------------------------------------
(* Status database *)

\* a paragraph's key: the package and the feature ("" for the core paragraph)
Keys == {<<pkg, f>> : pkg \in Pkgs, f \in {"", "f"}}

Absent == [want |-> "NONE", state |-> "ABSENT"]

StatusParagraph(pkg, feature, want, state) ==
    [pkg |-> pkg, feature |-> feature, want |-> want, state |-> state]

\* write_update: one more paragraph in installed/vcpkg/updates
WriteUpdate(log, spgh) == Append(log, spgh)

\* StatusParagraphs::insert: the paragraph replaces the one with the same key
Insert(db, spgh) ==
    [db EXCEPT ![<<spgh.pkg, spgh.feature>>] = [want |-> spgh.want, state |-> spgh.state]]

\* the status a reload computes from the journal: the last paragraph of each key
Journaled(log, key) ==
    LET idx == {i \in 1..Len(log) : <<log[i].pkg, log[i].feature>> = key}
    IN IF idx = {} THEN Absent
       ELSE LET last == CHOOSE i \in idx : \A j \in idx : j <= i
            IN [want |-> log[last].want, state |-> log[last].state]

IsInstalled(st) == st.want = "INSTALL" /\ st.state = "INSTALLED"

\* StatusParagraphs::find_installed(name, triplet) != end()
FindInstalled(db, name, triplet) ==
    \E pkg \in Pkgs : /\ Name(pkg) = name
                      /\ TripletOf(pkg) = triplet
                      /\ IsInstalled(db[<<pkg, "">>])

\* get_installed_files: each installed package with the lines of its listfile
GetInstalledFiles(db, lists) ==
    {[pkg |-> pkg, files |-> lists[pkg]] : pkg \in {x \in Pkgs : IsInstalled(db[<<x, "">>])}}

-----------------------------------------------------------------------------
(* Build driver: Build::build_package *)

\* MissingSpecs with the test of line 253 inverted
MissingSpecs_Inverted(pkg, db) ==
    LET deps == SetToSeq({Name(d) : d \in Depends(pkg)})
        miss(d) == FindInstalled(db, d, TripletOf(pkg))
    IN [i \in 1..Len(SelectSeq(deps, miss)) |->
           [name |-> SelectSeq(deps, miss)[i], triplet |-> TripletOf(pkg)]]

\* the dependencies of the port that find_installed does not find, as specs
MissingSpecs(pkg, db) ==
    LET deps == SetToSeq({Name(d) : d \in Depends(pkg)})
        miss(d) == ~FindInstalled(db, d, TripletOf(pkg))
    IN [i \in 1..Len(SelectSeq(deps, miss)) |->
           [name |-> SelectSeq(deps, miss)[i], triplet |-> TripletOf(pkg)]]

\* ClassifyBuild without the test of line 333
ClassifyBuild_IgnoreLint(rc, errs) ==
    IF rc # 0 THEN "BUILD_FAILED" ELSE "SUCCEEDED"

\* the result of a build whose child returned rc and whose post-build checks
\* counted errs errors
ClassifyBuild(rc, errs) ==
    IF rc # 0 THEN "BUILD_FAILED"
    ELSE IF errs # 0 THEN "POST_BUILD_CHECKS_FAILED"
    ELSE "SUCCEEDED"

\* lines 333-352: write_binary_control_file is reached when the checks found
\* no error
WritesControl(code) == code = "SUCCEEDED"

\* BinaryControlFile::features of the package's binary control file
BcfFeatures(pkg) == IF feature_packages THEN FeatureList(pkg) ELSE <<>>

BuildPackage ==
    /\ pc = "build"
    /\ LET missing_specs == MissingSpecs(cur, status_db)
       IN IF missing_specs # <<>>
          THEN /\ build_code' = "CASCADED_DUE_TO_MISSING_DEPENDENCIES"
               /\ unmet' = missing_specs
               /\ pc' = "built"
               /\ UNCHANGED <<sandbox, children, return_code, error_count,
                              control_written>>
          ELSE \E env \in {"ok", "fatal"}, rc \in {0, 1},
                  build_info \in {"ok", "invalid"}, errs \in 0..MaxLintErrors :
                 IF env = "fatal"
                 THEN \* from_triplet_file, get_toolset or make_build_env_cmd exits
                      /\ rc = 0 /\ build_info = "ok" /\ errs = 0
                      /\ children' = children + 1
                      /\ pc' = "fatal"
                      /\ UNCHANGED <<build_code, unmet, sandbox, return_code,
                                     error_count, control_written>>
                 ELSE /\ children' = children + 2
                      /\ unmet' = <<>>
                      /\ return_code' = rc
                      /\ IF rc # 0
                         THEN /\ build_info = "ok" /\ errs = 0
                              /\ build_code' = ClassifyBuild(rc, 0)
                              /\ pc' = "built"
                              /\ UNCHANGED <<sandbox, error_count, control_written>>
                         ELSE IF build_info = "invalid"
                         THEN \* read_build_info exits
                              /\ errs = 0
                              /\ sandbox' = [sandbox EXCEPT ![cur] =
                                                Tree(cur) \cup {File(BUILD_INFO_NAME)}]
                              /\ pc' = "fatal"
                              /\ UNCHANGED <<build_code, error_count, control_written>>
                         ELSE /\ error_count' = errs
                              /\ build_code' = ClassifyBuild(rc, errs)
                              /\ pc' = "built"
                              /\ control_written' = WritesControl(ClassifyBuild(rc, errs))
                              /\ sandbox' = [sandbox EXCEPT ![cur] =
                                    Tree(cur) \cup {File(BUILD_INFO_NAME)} \cup
                                    (IF WritesControl(ClassifyBuild(rc, errs))
                                     THEN {File(CONTROL_NAME)} ELSE {})]
    /\ UNCHANGED <<action_plan, keep_going, feature_packages, counter, results, result,
                   install_result, cur, fi, output, status_db, updates, installed,
                   listfiles, removed_failed, killed_at, had_record, snap, console, call>>

-----------------------------------------------------------------------------
(* Installer: Install::install_package and its helpers *)

\* Strings::case_insensitive_ascii_equals
ToLower(c) ==
    CASE c = "B" -> "b" [] c = "C" -> "c" [] c = "D" -> "d" [] c = "F" -> "f"
      [] c = "I" -> "i" [] c = "L" -> "l" [] c = "N" -> "n" [] c = "O" -> "o"
      [] c = "R" -> "r" [] c = "T" -> "t" [] c = "U" -> "u" [] OTHER -> c

CaseInsensitiveAsciiEquals(a, b) ==
    /\ Len(a) = Len(b)
    /\ \A i \in 1..Len(a) : ToLower(a[i]) = ToLower(b[i])

\* the entries of a set of paths in ascending path order (a directory comes
\* before what it contains)
RECURSIVE InPathOrder(_)
InPathOrder(S) ==
    IF S = {} THEN <<>>
    ELSE LET x == CHOOSE y \in S : \A z \in S : z = y \/ StrLess(y.path, z.path)
         IN <<x>> \o InPathOrder(S \ {x})

\* parent_path of a path of the prefix
RECURSIVE ParentPath(_)
ParentPath(s) ==
    IF s = <<>> THEN <<>>
    ELSE IF s[Len(s)] = "/" THEN SubSeq(s, 1, Len(s) - 1)
    ELSE ParentPath(SubSeq(s, 1, Len(s) - 1))

IsDirIn(fs, path) == \E e \in fs : e.path = path /\ e.kind = "dir"
IsFileIn(fs, path) == \E e \in fs : e.path = path /\ e.kind = "file"

\* the loop of install_files_and_write_listfile over get_files_recursive:
\* fs.status fails for the files in status_bad, create_directory or copy_file
\* fails for the files in op_bad
RECURSIVE CopyLoop(_, _, _, _, _, _)
CopyLoop(pkg, files, fs, out, status_bad, op_bad) ==
    IF files = <<>> THEN [fs |-> fs, out |-> out]
    ELSE
      LET file == Head(files)
          rest == Tail(files)
          prefix_length == Len(PackageDir(pkg))
          destination_subdirectory == TripletOf(pkg)
          filename == Filename(file.path)
          suffix == EraseFirst(file.path, prefix_length + 1)
          target == destination_subdirectory \o Slash \o suffix
          parent_ok == IsDirIn(fs, ParentPath(target))
      IN IF file \in status_bad
         THEN CopyLoop(pkg, rest, fs, out, status_bad, op_bad)
         ELSE IF /\ file.kind = "file"
                 /\ \/ CaseInsensitiveAsciiEquals(filename, CONTROL_NAME)
                    \/ CaseInsensitiveAsciiEquals(filename, BUILD_INFO_NAME)
         THEN CopyLoop(pkg, rest, fs, out, status_bad, op_bad)
         ELSE IF file.kind = "dir"
         THEN CopyLoop(pkg, rest,
                  IF file \notin op_bad /\ parent_ok /\ ~IsFileIn(fs, target)
                  THEN fs \cup {[path |-> target, kind |-> "dir", content |-> ""]}
                  ELSE fs,
                  Append(out, destination_subdirectory \o Slash \o suffix \o Slash),
                  status_bad, op_bad)
         ELSE CopyLoop(pkg, rest,
                  IF file \notin op_bad /\ parent_ok /\ ~IsDirIn(fs, target)
                  THEN {e \in fs : e.path # target}
                       \cup {[path |-> target, kind |-> "file", content |-> pkg]}
                  ELSE fs,
                  Append(out, destination_subdirectory \o Slash \o suffix),
                  status_bad, op_bad)

\* install_files_and_write_listfile up to the sort: the prefix and the lines
\* collected for the listfile
InstallFilesOf(pkg, fs, status_bad, op_bad) ==
    LET root == [path |-> TripletOf(pkg), kind |-> "dir", content |-> ""]
    IN CopyLoop(pkg, InPathOrder(GetFilesRecursive(pkg)), fs \cup {root},
                <<TripletOf(pkg) \o Slash>>, status_bad, op_bad)

\* ExtractFilesInTriplet without the test of line 679
ExtractFilesInTriplet_AnyTriplet(pgh_and_files, triplet) ==
    LET same == SetToSeq(pgh_and_files)
        Concat[i \in 0..Len(same)] ==
            IF i = 0 THEN <<>> ELSE Concat[i - 1] \o same[i].files
    IN SortStrings(Concat[Len(same)])

\* ExtractFilesInTriplet with the test of line 679 inverted
ExtractFilesInTriplet_Inverted(pgh_and_files, triplet) ==
    LET same == SetToSeq({t \in pgh_and_files : TripletOf(t.pkg) # triplet})
        Concat[i \in 0..Len(same)] ==
            IF i = 0 THEN <<>> ELSE Concat[i - 1] \o same[i].files
    IN SortStrings(Concat[Len(same)])

\* extract_files_in_triplet
ExtractFilesInTriplet(pgh_and_files, triplet) ==
    LET same == SetToSeq({t \in pgh_and_files : TripletOf(t.pkg) = triplet})
        Concat[i \in 0..Len(same)] ==
            IF i = 0 THEN <<>> ELSE Concat[i - 1] \o same[i].files
    IN SortStrings(Concat[Len(same)])

\* remove_first_n_chars
RemoveFirstNChars(strings, n) == [i \in 1..Len(strings) |-> EraseFirst(strings[i], n)]

\* build_list_of_package_files
BuildListOfPackageFiles(pkg) ==
    LET package_remove_char_count == Len(PackageDir(pkg)) + 1
        paths == SetToSeq({f.path : f \in GetFilesRecursive(pkg)})
    IN SortStrings(RemoveFirstNChars(paths, package_remove_char_count))

\* BuildListOfInstalledFiles without the "+ 1 for the slash" of line 709
BuildListOfInstalledFiles_NoSlash(pgh_and_files, triplet) ==
    LET installed_remove_char_count == Len(triplet)
    IN SortStrings(RemoveFirstNChars(ExtractFilesInTriplet(pgh_and_files, triplet),
                                     installed_remove_char_count))

\* build_list_of_installed_files
BuildListOfInstalledFiles(pgh_and_files, triplet) ==
    LET installed_remove_char_count == Len(triplet) + 1
    IN SortStrings(RemoveFirstNChars(ExtractFilesInTriplet(pgh_and_files, triplet),
                                     installed_remove_char_count))

\* lines 720-730: the intersection of the files of the sandbox with the files
\* installed for the triplet of the package
ConflictScan(pkg, pgh_and_files) ==
    SetIntersection(BuildListOfPackageFiles(pkg),
                    BuildListOfInstalledFiles(pgh_and_files, TripletOf(pkg)))

\* the intersection install_package computes for the conflict scan
Intersection(pkg, db, lists) == ConflictScan(pkg, GetInstalledFiles(db, lists))


\* InstallScan with the HALF_INSTALLED record of lines 745-751 written before
\* the test of line 732
InstallScan_HalfFirst ==
    /\ pc = "inst_scan"
    /\ updates' = WriteUpdate(updates, StatusParagraph(cur, "", "INSTALL", "HALF_INSTALLED"))
    /\ status_db' = Insert(status_db, StatusParagraph(cur, "", "INSTALL", "HALF_INSTALLED"))
    /\ IF Intersection(cur, status_db, listfiles) # <<>>
       THEN /\ install_result' = "FILE_CONFLICTS"
            /\ pc' = "inst_ret"
       ELSE /\ pc' = "inst_fw_half"
            /\ UNCHANGED install_result
    /\ UNCHANGED <<action_plan, keep_going, feature_packages, counter, results, result,
                   cur, build_code, unmet, fi, output, sandbox, installed, listfiles,
                   children, removed_failed, killed_at, had_record, return_code,
                   error_count, control_written, snap, console, call>>

\* lines 715-743: the conflict scan
InstallScan ==
    /\ pc = "inst_scan"
    /\ IF \E t \in GetInstalledFiles(status_db, listfiles) : t.files = <<>>
       THEN \* get_installed_files cannot read a listfile
            /\ pc' = "fatal"
            /\ UNCHANGED install_result
       ELSE IF Intersection(cur, status_db, listfiles) # <<>>
       THEN /\ install_result' = "FILE_CONFLICTS"
            /\ pc' = "inst_ret"
       ELSE /\ pc' = "inst_w_half"
            /\ UNCHANGED install_result
    /\ UNCHANGED <<action_plan, keep_going, feature_packages, counter, results, result,
                   cur, build_code, unmet, fi, output, status_db, updates, sandbox,
                   installed, listfiles, children, removed_failed, killed_at, had_record,
                   return_code, error_count, control_written, snap, console, call>>

\* WriteHalfCore without the write_update of line 750
WriteHalfCore_NoUpdate ==
    /\ pc = "inst_w_half"
    /\ pc' = "inst_i_half"
    /\ UNCHANGED <<action_plan, keep_going, feature_packages, counter, results, result,
                   cur, build_code, unmet, fi, output, status_db, sandbox, installed,
                   listfiles, children, install_result, removed_failed, killed_at,
                   had_record, updates,
                   return_code, error_count, control_written, snap, console, call>>

\* line 750: write_update of the core paragraph, HALF_INSTALLED
WriteHalfCore ==
    /\ pc = "inst_w_half"
    /\ updates' = WriteUpdate(updates, StatusParagraph(cur, "", "INSTALL", "HALF_INSTALLED"))
    /\ pc' = "inst_i_half"
    /\ UNCHANGED <<action_plan, keep_going, feature_packages, counter, results, result,
                   cur, build_code, unmet, fi, output, status_db, sandbox, installed,
                   listfiles, children, install_result, removed_failed, killed_at,
                   had_record,
                   return_code, error_count, control_written, snap, console, call>>

\* line 751: status_db->insert of the core paragraph, HALF_INSTALLED
InsertHalfCore ==
    /\ pc = "inst_i_half"
    /\ status_db' = Insert(status_db, StatusParagraph(cur, "", "INSTALL", "HALF_INSTALLED"))
    /\ fi' = 0
    /\ pc' = "inst_fw_half"
    /\ UNCHANGED <<action_plan, keep_going, feature_packages, counter, results, result,
                   cur, build_code, unmet, output, updates, sandbox, installed,
                   listfiles, children, install_result, removed_failed, killed_at,
                   had_record,
                   return_code, error_count, control_written, snap, console, call>>

\* WriteHalfFeature without the write_update of line 763
WriteHalfFeature_NoUpdate ==
    /\ pc = "inst_fw_half"
    /\ fi < Len(BcfFeatures(cur))
    /\ pc' = "inst_fi_half"
    /\ UNCHANGED <<action_plan, keep_going, feature_packages, counter, results, result,
                   cur, build_code, unmet, fi, output, status_db, updates, sandbox,
                   installed, listfiles, children, install_result, removed_failed,
                   killed_at, had_record, return_code, error_count, control_written,
                   snap, console, call>>

\* line 763: write_update of the next feature paragraph, HALF_INSTALLED
WriteHalfFeature ==
    /\ pc = "inst_fw_half"
    /\ fi < Len(BcfFeatures(cur))
    /\ updates' = WriteUpdate(updates,
          StatusParagraph(cur, BcfFeatures(cur)[fi + 1], "INSTALL", "HALF_INSTALLED"))
    /\ pc' = "inst_fi_half"
    /\ UNCHANGED <<action_plan, keep_going, feature_packages, counter, results, result,
                   cur, build_code, unmet, fi, output, status_db, sandbox, installed,
                   listfiles, children, install_result, removed_failed, killed_at,
                   had_record,
                   return_code, error_count, control_written, snap, console, call>>

\* line 764: status_db->insert of that feature paragraph
InsertHalfFeature ==
    /\ pc = "inst_fi_half"
    /\ status_db' = Insert(status_db,
          StatusParagraph(cur, BcfFeatures(cur)[fi + 1], "INSTALL", "HALF_INSTALLED"))
    /\ fi' = fi + 1
    /\ pc' = "inst_fw_half"
    /\ UNCHANGED <<action_plan, keep_going, feature_packages, counter, results, result,
                   cur, build_code, unmet, output, updates, sandbox, installed,
                   listfiles, children, install_result, removed_failed, killed_at,
                   had_record,
                   return_code, error_count, control_written, snap, console, call>>

\* lines 576-658: install_files_and_write_listfile up to the end of its loop
InstallFiles ==
    /\ pc = "inst_fw_half"
    /\ fi = Len(BcfFeatures(cur))
    /\ \E dirs_ok \in BOOLEAN,
          status_bad \in SUBSET GetFilesRecursive(cur),
          op_bad \in SUBSET GetFilesRecursive(cur) :
         /\ status_bad \cap op_bad = {}
         /\ Cardinality(status_bad \cup op_bad) <= MaxCopyFailures
         /\ IF sandbox[cur] = {} \/ ~dirs_ok
            THEN \* the source directory is missing or a directory cannot be made
                 /\ status_bad = {} /\ op_bad = {}
                 /\ pc' = "fatal"
                 /\ UNCHANGED <<installed, output>>
            ELSE LET r == InstallFilesOf(cur, installed, status_bad, op_bad)
                 IN /\ dirs_ok
                    /\ installed' = r.fs
                    /\ output' = r.out
                    /\ pc' = "inst_listfile"
    /\ UNCHANGED <<action_plan, keep_going, feature_packages, counter, results, result,
                   cur, build_code, unmet, fi, status_db, updates, sandbox, listfiles,
                   children, install_result, removed_failed, killed_at, had_record,
                   return_code, error_count, control_written, snap, console, call>>

\* WriteListfile without the write_lines of line 662
WriteListfile_NotWritten ==
    /\ pc = "inst_listfile"
    /\ output' = <<>>
    /\ pc' = "inst_w_inst"
    /\ UNCHANGED <<action_plan, keep_going, feature_packages, counter, results, result,
                   cur, build_code, unmet, fi, status_db, updates, sandbox, installed,
                   listfiles, children, install_result, removed_failed, killed_at,
                   had_record, return_code, error_count, control_written, snap, console,
                   call>>

\* lines 660-662: sort the lines and write the listfile
WriteListfile ==
    /\ pc = "inst_listfile"
    /\ listfiles' = [listfiles EXCEPT ![cur] = SortStrings(output)]
    /\ output' = <<>>
    /\ pc' = "inst_w_inst"
    /\ UNCHANGED <<action_plan, keep_going, feature_packages, counter, results, result,
                   cur, build_code, unmet, fi, status_db, updates, sandbox, installed,
                   children, install_result, removed_failed, killed_at, had_record,
                   return_code, error_count, control_written, snap, console, call>>

\* WriteInstalledCore without the write_update of line 773
WriteInstalledCore_NoUpdate ==
    /\ pc = "inst_w_inst"
    /\ pc' = "inst_i_inst"
    /\ UNCHANGED <<action_plan, keep_going, feature_packages, counter, results, result,
                   cur, build_code, unmet, fi, output, status_db, sandbox, installed,
                   listfiles, children, install_result, removed_failed, killed_at,
                   had_record, updates,
                   return_code, error_count, control_written, snap, console, call>>

\* lines 772-773: write_update of the core paragraph, INSTALLED
WriteInstalledCore ==
    /\ pc = "inst_w_inst"
    /\ updates' = WriteUpdate(updates, StatusParagraph(cur, "", "INSTALL", "INSTALLED"))
    /\ pc' = "inst_i_inst"
    /\ UNCHANGED <<action_plan, keep_going, feature_packages, counter, results, result,
                   cur, build_code, unmet, fi, output, status_db, sandbox, installed,
                   listfiles, children, install_result, removed_failed, killed_at,
                   had_record,
                   return_code, error_count, control_written, snap, console, call>>

\* InsertInstalledCore that leaves the in-memory database as it was
InsertInstalledCore_JournalOnly ==
    /\ pc = "inst_i_inst"
    /\ fi' = 0
    /\ pc' = "inst_fw_inst"
    /\ UNCHANGED <<action_plan, keep_going, feature_packages, counter, results, result,
                   cur, build_code, unmet, output, updates, sandbox, installed,
                   listfiles, children, install_result, removed_failed, killed_at,
                   had_record, status_db,
                   return_code, error_count, control_written, snap, console, call>>

\* line 774: status_db->insert of the core paragraph, INSTALLED
InsertInstalledCore ==
    /\ pc = "inst_i_inst"
    /\ status_db' = Insert(status_db, StatusParagraph(cur, "", "INSTALL", "INSTALLED"))
    /\ fi' = 0
    /\ pc' = "inst_fw_inst"
    /\ UNCHANGED <<action_plan, keep_going, feature_packages, counter, results, result,
                   cur, build_code, unmet, output, updates, sandbox, installed,
                   listfiles, children, install_result, removed_failed, killed_at,
                   had_record,
                   return_code, error_count, control_written, snap, console, call>>

\* lines 778-779: write_update of the next feature paragraph, INSTALLED
WriteInstalledFeature ==
    /\ pc = "inst_fw_inst"
    /\ fi < Len(BcfFeatures(cur))
    /\ updates' = WriteUpdate(updates,
          StatusParagraph(cur, BcfFeatures(cur)[fi + 1], "INSTALL", "INSTALLED"))
    /\ pc' = "inst_fi_inst"
    /\ UNCHANGED <<action_plan, keep_going, feature_packages, counter, results, result,
                   cur, build_code, unmet, fi, output, status_db, sandbox, installed,
                   listfiles, children, install_result, removed_failed, killed_at,
                   had_record,
                   return_code, error_count, control_written, snap, console, call>>

\* line 780: status_db->insert of that feature paragraph
InsertInstalledFeature ==
    /\ pc = "inst_fi_inst"
    /\ status_db' = Insert(status_db,
          StatusParagraph(cur, BcfFeatures(cur)[fi + 1], "INSTALL", "INSTALLED"))
    /\ fi' = fi + 1
    /\ pc' = "inst_fw_inst"
    /\ UNCHANGED <<action_plan, keep_going, feature_packages, counter, results, result,
                   cur, build_code, unmet, output, updates, sandbox, installed,
                   listfiles, children, install_result, removed_failed, killed_at,
                   had_record,
                   return_code, error_count, control_written, snap, console, call>>

\* line 783: return InstallResult::SUCCESS
InstallReturn ==
    /\ pc = "inst_fw_inst"
    /\ fi = Len(BcfFeatures(cur))
    /\ install_result' = "SUCCESS"
    /\ pc' = "inst_ret"
    /\ UNCHANGED <<action_plan, keep_going, feature_packages, counter, results, result,
                   cur, build_code, unmet, fi, output, status_db, updates, sandbox,
                   installed, listfiles, children, removed_failed, killed_at, had_record,
                   return_code, error_count, control_written, snap, console, call>>

-----------------------------------------------------------------------------
(* Remove::perform_remove_plan_action, called with Remove::Purge::YES *)

\* the directories named by the listfile lines, deepest first, each removed
\* when nothing is left below it
RECURSIVE RemoveEmptyDirs(_, _)
RemoveEmptyDirs(fs, dirs) ==
    IF dirs = <<>> THEN fs
    ELSE LET d == Head(dirs)
             below == {e \in fs : /\ Len(e.path) > Len(d)
                                  /\ SubSeq(e.path, 1, Len(d) + 1) = d \o Slash}
         IN RemoveEmptyDirs(IF below = {} THEN {e \in fs : e.path # d} ELSE fs,
                            Tail(dirs))

Reverse(seq) == [i \in 1..Len(seq) |-> seq[Len(seq) + 1 - i]]

\* the prefix after the removal of the paths of a listfile; a failed removal
\* leaves the files in place
RemoveFiles(fs, lines, failed) ==
    LET is_dir(l) == l[Len(l)] = "/"
        not_dir(l) == ~is_dir(l)
        files == Range(SelectSeq(lines, not_dir))
        dirs == [i \in 1..Len(SelectSeq(lines, is_dir)) |->
                    SubSeq(SelectSeq(lines, is_dir)[i], 1,
                           Len(SelectSeq(lines, is_dir)[i]) - 1)]
        without == IF failed THEN fs ELSE {e \in fs : e.path \notin files}
    IN RemoveEmptyDirs(without, Reverse(SortStrings(dirs)))

\* the paragraphs of the package that have a record, rewritten PURGE/NOT_INSTALLED
PurgeParagraphs(pkg, db) ==
    LET fs == SelectSeq(<<"", "f">>, LAMBDA f : db[<<pkg, f>>] # Absent)
    IN [i \in 1..Len(fs) |-> StatusParagraph(pkg, fs[i], "PURGE", "NOT_INSTALLED")]

RECURSIVE InsertAll(_, _)
InsertAll(db, spghs) ==
    IF spghs = <<>> THEN db ELSE InsertAll(Insert(db, Head(spghs)), Tail(spghs))

-----------------------------------------------------------------------------
(* Executor: Install::perform_install_plan_action and perform_and_exit_ex *)

InstallPlanAction(pkg, plan_type) == [kind |-> "install", pkg |-> pkg, plan_type |-> plan_type]
RemovePlanAction(pkg) == [kind |-> "remove", pkg |-> pkg, plan_type |-> "REMOVE"]

InstallPlanTypes == {"ALREADY_INSTALLED", "INSTALL", "BUILD_AND_INSTALL"}

AnyAction ==
    {InstallPlanAction(pkg, t) : pkg \in Pkgs, t \in InstallPlanTypes}
    \cup {RemovePlanAction(pkg) : pkg \in Pkgs}

\* where the executor goes for an action: the branch of
\* perform_install_plan_action for an install action, the removal otherwise
Dispatch(action) ==
    IF action.kind = "install"
    THEN CASE action.plan_type = "ALREADY_INSTALLED" -> "already"
           [] action.plan_type = "BUILD_AND_INSTALL" -> "build"
           [] action.plan_type = "INSTALL" -> "inst_scan"
    ELSE "remove"

\* lines 997-1008: the head of the loop, for the next action of the plan
LoopNext ==
    /\ pc = "loop"
    /\ counter < Len(action_plan)
    /\ counter' = counter + 1
    /\ results' = Append(results, "NULLVALUE")
    /\ cur' = action_plan[counter + 1].pkg
    /\ had_record' = (\E f \in {"", "f"} :
                         Journaled(updates, <<action_plan[counter + 1].pkg, f>>) # Absent)
    /\ pc' = Dispatch(action_plan[counter + 1])
    /\ result' = "NULLVALUE"
    /\ build_code' = "NULLVALUE"
    /\ unmet' = <<>>
    /\ install_result' = "NONE"
    /\ return_code' = 0
    /\ error_count' = 0
    /\ control_written' = FALSE
    /\ fi' = 0
    /\ console' = <<>>
    /\ snap' = [installed |-> installed, status_db |-> status_db, updates |-> updates,
                listfiles |-> listfiles, sandbox |-> sandbox, children |-> children]
    /\ UNCHANGED <<action_plan, keep_going, feature_packages, output, status_db,
                   updates, sandbox, installed, listfiles, children, removed_failed,
                   killed_at, call>>

\* AlreadyInstalled that builds from HEAD when the user asked for it
AlreadyInstalled_BuildsHead ==
    /\ pc = "already"
    /\ \E is_user_requested \in BOOLEAN, use_head_version \in BOOLEAN :
          IF use_head_version /\ is_user_requested
          THEN /\ console' = <<"Building package from HEAD">>
               /\ pc' = "build"
               /\ UNCHANGED result
          ELSE /\ console' = <<"is already installed">>
               /\ result' = "SUCCEEDED"
               /\ pc' = "ret"
    /\ UNCHANGED <<action_plan, keep_going, feature_packages, counter, results, cur,
                   build_code, unmet, fi, output, status_db, updates, sandbox,
                   installed, listfiles, children, install_result, removed_failed,
                   killed_at, had_record,
                   return_code, error_count, control_written, snap, call>>

\* lines 798-809: the ALREADY_INSTALLED branch, for both request types of the
\* action and both values of build_package_options.use_head_version
AlreadyInstalled ==
    /\ pc = "already"
    /\ \E is_user_requested \in BOOLEAN, use_head_version \in BOOLEAN :
          console' = IF use_head_version /\ is_user_requested
                     THEN <<"is already installed -- not building from HEAD">>
                     ELSE <<"is already installed">>
    /\ result' = "SUCCEEDED"
    /\ pc' = "ret"
    /\ UNCHANGED <<action_plan, keep_going, feature_packages, counter, results, cur,
                   build_code, unmet, fi, output, status_db, updates, sandbox,
                   installed, listfiles, children, install_result, removed_failed,
                   killed_at, had_record,
                   return_code, error_count, control_written, snap, call>>

\* AfterBuild without the test of line 840
AfterBuild_IgnoreCode ==
    /\ pc = "built"
    /\ IF File(CONTROL_NAME) \notin sandbox[cur]
       THEN /\ pc' = "fatal"
            /\ UNCHANGED result
       ELSE /\ pc' = "inst_scan"
            /\ UNCHANGED result
    /\ UNCHANGED <<action_plan, keep_going, feature_packages, counter, results, cur,
                   build_code, unmet, fi, output, status_db, updates, sandbox,
                   installed, listfiles, children, install_result, removed_failed,
                   killed_at, had_record, return_code, error_count, control_written,
                   snap, console, call>>

\* lines 840-851: after build_package returned
AfterBuild ==
    /\ pc = "built"
    /\ IF build_code # "SUCCEEDED"
       THEN /\ result' = build_code
            /\ pc' = "ret"
       ELSE IF File(CONTROL_NAME) \notin sandbox[cur]
       THEN \* try_load_cached_control_package(...).value_or_exit
            /\ pc' = "fatal"
            /\ UNCHANGED result
       ELSE /\ pc' = "inst_scan"
            /\ UNCHANGED result
    /\ UNCHANGED <<action_plan, keep_going, feature_packages, counter, results, cur,
                   build_code, unmet, fi, output, status_db, updates, sandbox,
                   installed, listfiles, children, install_result, removed_failed,
                   killed_at, had_record,
                   return_code, error_count, control_written, snap, console, call>>

\* lines 852-859 and 872-879: the switch on install_package's result
AfterInstall ==
    /\ pc = "inst_ret"
    /\ result' = (IF install_result = "SUCCESS" THEN "SUCCEEDED" ELSE "FILE_CONFLICTS")
    /\ pc' = "ret"
    /\ UNCHANGED <<action_plan, keep_going, feature_packages, counter, results, cur,
                   build_code, unmet, fi, output, status_db, updates, sandbox,
                   installed, listfiles, children, install_result, removed_failed,
                   killed_at, had_record,
                   return_code, error_count, control_written, snap, console, call>>

\* RecordResult without the keep_going test of line 1012
RecordResult_AlwaysStop ==
    /\ pc = "ret"
    /\ IF result # "SUCCEEDED"
       THEN /\ pc' = "exit_fail"
            /\ UNCHANGED results
       ELSE /\ results' = [results EXCEPT ![Len(results)] = result]
            /\ pc' = "loop"
    /\ UNCHANGED <<action_plan, keep_going, feature_packages, counter, result, cur,
                   build_code, unmet, fi, output, status_db, updates, sandbox,
                   installed, listfiles, children, install_result, removed_failed,
                   killed_at, had_record, return_code, error_count, control_written,
                   snap, console, call>>

\* lines 1012-1018: the executor on the result of an install action
RecordResult ==
    /\ pc = "ret"
    /\ IF result # "SUCCEEDED" /\ ~keep_going
       THEN /\ pc' = "exit_fail"
            /\ UNCHANGED results
       ELSE /\ results' = [results EXCEPT ![Len(results)] = result]
            /\ pc' = "loop"
    /\ UNCHANGED <<action_plan, keep_going, feature_packages, counter, result, cur,
                   build_code, unmet, fi, output, status_db, updates, sandbox,
                   installed, listfiles, children, install_result, removed_failed,
                   killed_at, had_record,
                   return_code, error_count, control_written, snap, console, call>>

\* lines 1020-1024: a remove action
PerformRemove ==
    /\ pc = "remove"
    /\ IF ~feature_packages
       THEN /\ pc' = "fatal"
            /\ UNCHANGED <<status_db, updates, sandbox, installed, listfiles,
                           removed_failed>>
       ELSE \E failed \in BOOLEAN :
              /\ installed' = RemoveFiles(installed, listfiles[cur], failed)
              /\ listfiles' = [listfiles EXCEPT ![cur] = <<>>]
              /\ updates' = updates \o PurgeParagraphs(cur, status_db)
              /\ status_db' = InsertAll(status_db, PurgeParagraphs(cur, status_db))
              /\ sandbox' = [sandbox EXCEPT ![cur] = {}]
              /\ removed_failed' = IF failed THEN removed_failed \cup {counter}
                                   ELSE removed_failed
              /\ pc' = "loop"
    /\ UNCHANGED <<action_plan, keep_going, feature_packages, counter, results, result,
                   cur, build_code, unmet, fi, output, children, install_result,
                   killed_at, had_record,
                   return_code, error_count, control_written, snap, console, call>>

\* lines 1034-1061: the loop is over, exit_success
LoopEnd ==
    /\ pc = "loop"
    /\ counter = Len(action_plan)
    /\ pc' = "exit_success"
    /\ UNCHANGED <<action_plan, keep_going, feature_packages, counter, results, result,
                   cur, build_code, unmet, fi, output, status_db, updates, sandbox,
                   installed, listfiles, children, install_result, removed_failed,
                   killed_at, had_record,
                   return_code, error_count, control_written, snap, console, call>>

Ended == {"exit_success", "exit_fail", "fatal", "terminated"}

\* the process is terminated from outside (user interrupt) where it stands
Terminate ==
    /\ pc \notin Ended
    /\ killed_at' = pc
    /\ pc' = "terminated"
    /\ UNCHANGED <<action_plan, keep_going, feature_packages, counter, results, result,
                   cur, build_code, unmet, fi, output, status_db, updates, sandbox,
                   installed, listfiles, children, install_result, removed_failed,
                   had_record,
                   return_code, error_count, control_written, snap, console, call>>

-----------------------------------------------------------------------------
(* Initial states: a status database and a prefix that earlier runs left, and a
   plan the planner can hand over for them.  The sandboxes that exist are those
   of the installed packages, or those of all packages. *)

\* std::sort(..., compare_by_name) of a collection of actions with distinct names
SortByName(S) ==
    LET names == SortStrings(SetToSeq({Name(a.pkg) : a \in S}))
    IN [i \in 1..Len(names) |-> CHOOSE a \in S : Name(a.pkg) = names[i]]

\* RemovePlansBefore that never finds a remove plan
RemovePlansBefore_None(plan, i) == {}

\* print_plan, lines 900-929: remove_plans when the loop reaches position i
RemovePlansBefore(plan, i) ==
    {plan[j] : j \in {k \in 1..(i - 1) : plan[k].kind = "remove"}}

\* print_plan: the five lists it prints and whether it ends the process;
\* user_requested holds the positions whose request type is USER_REQUESTED
PrintPlan(plan, user_requested, is_recursive) ==
    LET installs == {i \in 1..Len(plan) : plan[i].kind = "install"}
        rebuilt == {i \in installs :
                      \E r \in RemovePlansBefore(plan, i) : r.pkg = plan[i].pkg}
        others(t) == {plan[i] : i \in {k \in installs \ rebuilt : plan[k].plan_type = t}}
        removes == {plan[i] : i \in (1..Len(plan)) \ installs}
    IN [remove_plans |-> SortByName(removes),
        rebuilt_plans |-> SortByName({plan[i] : i \in rebuilt}),
        only_install_plans |-> SortByName(others("INSTALL")),
        new_plans |-> SortByName(others("BUILD_AND_INSTALL")),
        already_installed_plans |->
            SortByName({plan[i] : i \in {k \in (installs \ rebuilt) \cap user_requested :
                                           plan[k].plan_type = "ALREADY_INSTALLED"}}),
        exit_fail |-> removes # {} /\ ~is_recursive]

FilePaths(pkg) == {e.path : e \in {x \in Tree(pkg) : x.kind = "file"}}

\* sets of packages that can be installed together: dependencies included and
\* no file owned twice in a triplet
InstallableSets ==
    {S \in SUBSET Pkgs :
        /\ \A x \in S : Depends(x) \subseteq S
        /\ \A x, y \in S : x # y /\ TripletOf(x) = TripletOf(y)
                              => FilePaths(x) \cap FilePaths(y) = {}}

Cached(pkg) == Tree(pkg) \cup {File(BUILD_INFO_NAME), File(CONTROL_NAME)}

Earlier(plan, i, kind, pkg) ==
    \E j \in 1..(i - 1) : plan[j].kind = kind /\ plan[j].pkg = pkg

\* the plans the planner hands over when the packages of installed0 are
\* installed and those of cached0 have a sandbox
ValidPlan(plan, installed0, cached0, features) ==
    \A i \in 1..Len(plan) :
        LET a == plan[i] IN
        /\ ~Earlier(plan, i, a.kind, a.pkg)
        /\ a.kind = "remove" =>
              /\ features
              /\ a.pkg \in installed0
              /\ ~Earlier(plan, i, "install", a.pkg)
        /\ a.kind = "install" =>
              CASE a.plan_type = "ALREADY_INSTALLED" ->
                      a.pkg \in installed0 /\ ~Earlier(plan, i, "remove", a.pkg)
                [] a.plan_type = "INSTALL" ->
                      a.pkg \notin installed0 /\ a.pkg \in cached0
                [] a.plan_type = "BUILD_AND_INSTALL" ->
                      a.pkg \notin installed0 \/ Earlier(plan, i, "remove", a.pkg)

Plans == UNION {[1..n -> AnyAction] : n \in 1..MaxPlan}

\* the variables of a run of the executor
run_vars == <<action_plan, keep_going, feature_packages, counter, results, pc, result,
              cur, build_code, unmet, fi, output, status_db, updates, sandbox,
              installed, listfiles, children, install_result, removed_failed,
              killed_at, had_record, return_code, error_count, control_written,
              snap, console>>

InitRun ==
    /\ keep_going \in BOOLEAN
    /\ feature_packages \in BOOLEAN
    /\ \E installed0 \in InstallableSets :
       \E cached0 \in {installed0, Pkgs} :
         /\ sandbox = [pkg \in Pkgs |-> IF pkg \in cached0 THEN Cached(pkg) ELSE {}]
         /\ LET order == SetToSeq(installed0)
                Fs[i \in 0..Len(order)] ==
                    IF i = 0 THEN {}
                    ELSE InstallFilesOf(order[i], Fs[i - 1], {}, {}).fs
                spghs(pkg) ==
                    <<StatusParagraph(pkg, "", "INSTALL", "INSTALLED")>> \o
                    [k \in 1..Len(BcfFeatures(pkg)) |->
                        StatusParagraph(pkg, BcfFeatures(pkg)[k], "INSTALL", "INSTALLED")]
                Log[i \in 0..Len(order)] ==
                    IF i = 0 THEN <<>> ELSE Log[i - 1] \o spghs(order[i])
            IN /\ installed = Fs[Len(order)]
               /\ listfiles = [pkg \in Pkgs |->
                     IF pkg \in installed0
                     THEN SortStrings(InstallFilesOf(pkg, {}, {}, {}).out)
                     ELSE <<>>]
               /\ updates = Log[Len(order)]
               /\ status_db = InsertAll([k \in Keys |-> Absent], Log[Len(order)])
         /\ action_plan \in {pl \in Plans :
                                ValidPlan(pl, installed0, cached0, feature_packages)}
    /\ counter = 0
    /\ results = <<>>
    /\ result = "NULLVALUE"
    /\ install_result = "NONE"
    /\ cur = "p"
    /\ build_code = "NULLVALUE"
    /\ unmet = <<>>
    /\ fi = 0
    /\ output = <<>>
    /\ children = 0
    /\ removed_failed = {}
    /\ killed_at = "none"
    /\ had_record = FALSE
    /\ return_code = 0
    /\ error_count = 0
    /\ control_written = FALSE
    /\ snap = [installed |-> installed, status_db |-> status_db, updates |-> updates,
               listfiles |-> listfiles, sandbox |-> sandbox, children |-> 0]
    /\ console = <<>>

\* perform_and_exit_ex is entered with the plan
Init ==
    /\ InitRun
    /\ pc = "loop"
    /\ call = <<>>

Next ==
    \/ LoopNext
    \/ AlreadyInstalled
    \/ BuildPackage
    \/ AfterBuild
    \/ InstallScan
    \/ WriteHalfCore
    \/ InsertHalfCore
    \/ WriteHalfFeature
    \/ InsertHalfFeature
    \/ InstallFiles
    \/ WriteListfile
    \/ WriteInstalledCore
    \/ InsertInstalledCore
    \/ WriteInstalledFeature
    \/ InsertInstalledFeature
    \/ InstallReturn
    \/ AfterInstall
    \/ RecordResult
    \/ PerformRemove
    \/ LoopEnd
    \/ Terminate

Spec == Init /\ [][Next]_vars

-----------------------------------------------------------------------------
(* Properties *)

-----------------------------------------------------------------------------
(* The next start after a terminated run: the status database is loaded from
   the journal and a plan is made for the spec whose action was interrupted. *)

\* load protocol: the in-memory index holds the latest paragraph of each key
LoadStatusDb(log) == [key \in Keys |-> Journaled(log, key)]

\* a paragraph of the package is recorded HALF_INSTALLED
IsHalfInstalled(db, pkg) ==
    \E f \in {"", "f"} : db[<<pkg, f>>].state = "HALF_INSTALLED"

\* the actions the planner proposes for one spec
ActionsFor(pkg, db, sb) ==
    IF IsHalfInstalled(db, pkg)
    THEN <<RemovePlanAction(pkg), InstallPlanAction(pkg, "BUILD_AND_INSTALL")>>
    ELSE IF IsInstalled(db[<<pkg, "">>])
    THEN <<InstallPlanAction(pkg, "ALREADY_INSTALLED")>>
    ELSE IF File(CONTROL_NAME) \in sb[pkg]
    THEN <<InstallPlanAction(pkg, "INSTALL")>>
    ELSE <<InstallPlanAction(pkg, "BUILD_AND_INSTALL")>>

\* the plan for a requested spec: its dependencies that are not installed
\* first, then the spec
CreateInstallPlan(pkg, db, sb) ==
    LET deps == SetToSeq({d \in Depends(pkg) : ~IsInstalled(db[<<d, "">>])})
        Before[i \in 0..Len(deps)] ==
            IF i = 0 THEN <<>> ELSE Before[i - 1] \o ActionsFor(deps[i], db, sb)
    IN Before[Len(deps)] \o ActionsFor(pkg, db, sb)

\* the process is started again for the spec of the interrupted action: up to
\* the point where the plan is made
Restart ==
    /\ pc = "terminated"
    /\ status_db' = LoadStatusDb(updates)
    /\ action_plan' = CreateInstallPlan(cur, LoadStatusDb(updates), sandbox)
    /\ counter' = 0
    /\ results' = <<>>
    /\ pc' = "planned"
    /\ UNCHANGED <<keep_going, feature_packages, result, cur, build_code, unmet, fi,
                   output, updates, sandbox, installed, listfiles, children,
                   install_result, removed_failed, killed_at, had_record, return_code,
                   error_count, control_written, snap, console, call>>

NextRecovery == Next \/ Restart

SpecRecovery == Init /\ [][NextRecovery]_vars

-----------------------------------------------------------------------------
(* Build::PreBuildInfo::from_triplet_file.  A line of the child's output is a
   sequence of lexemes: a variable name, the character '=' or a value. *)

(* Install::perform_and_exit from print_plan on: the plan is printed, the
   --dry-run option is looked at, and perform_and_exit_ex runs the plan *)

\* PrintPlanStep with the exit of lines 975-981 left out
PrintPlanStep_NoExit ==
    /\ pc = "print_plan"
    /\ pc' = "printed"
    /\ UNCHANGED <<action_plan, keep_going, feature_packages, counter, results, result,
                   cur, build_code, unmet, fi, output, status_db, updates, sandbox,
                   installed, listfiles, children, install_result, removed_failed,
                   killed_at, had_record, return_code, error_count, control_written,
                   snap, console, call>>

\* line 1167: print_plan(action_plan, is_recursive)
PrintPlanStep ==
    /\ pc = "print_plan"
    /\ pc' = IF PrintPlan(action_plan, 1..Len(action_plan), call.is_recursive).exit_fail
             THEN "exit_fail" ELSE "printed"
    /\ UNCHANGED <<action_plan, keep_going, feature_packages, counter, results, result,
                   cur, build_code, unmet, fi, output, status_db, updates, sandbox,
                   installed, listfiles, children, install_result, removed_failed,
                   killed_at, had_record, return_code, error_count, control_written,
                   snap, console, call>>

\* DryRunCheck without the test of line 1169
DryRunCheck_Ignored ==
    /\ pc = "printed"
    /\ pc' = "loop"
    /\ call' = <<>>
    /\ UNCHANGED <<action_plan, keep_going, feature_packages, counter, results, result,
                   cur, build_code, unmet, fi, output, status_db, updates, sandbox,
                   installed, listfiles, children, install_result, removed_failed,
                   killed_at, had_record, return_code, error_count, control_written,
                   snap, console>>

\* lines 1169-1174: exit_success on --dry-run, perform_and_exit_ex otherwise;
\* the options are not read again once perform_and_exit_ex runs
DryRunCheck ==
    /\ pc = "printed"
    /\ IF call.dry_run
       THEN pc' = "exit_success" /\ UNCHANGED call
       ELSE pc' = "loop" /\ call' = <<>>
    /\ UNCHANGED <<action_plan, keep_going, feature_packages, counter, results, result,
                   cur, build_code, unmet, fi, output, status_db, updates, sandbox,
                   installed, listfiles, children, install_result, removed_failed,
                   killed_at, had_record, return_code, error_count, control_written,
                   snap, console>>

InitCommand ==
    /\ InitRun
    /\ pc = "print_plan"
    /\ \E is_recursive \in BOOLEAN, dry_run \in BOOLEAN :
          call = [fn |-> "perform_and_exit", is_recursive |-> is_recursive,
                  dry_run |-> dry_run]

NextCommand ==
    \/ PrintPlanStep
    \/ DryRunCheck
    \/ Next

SpecCommand == InitCommand /\ [][NextCommand]_vars

------------------------------------------------------------------------------

\* lines 477-528 read this many lines of output at most
MaxLines == 3

FLAG_GUID == "c35112b6-d1ba-415b-aa5d-81de856ef8eb"

KnownVariables ==
    {"VCPKG_TARGET_ARCHITECTURE", "VCPKG_CMAKE_SYSTEM_NAME", "VCPKG_CMAKE_SYSTEM_VERSION",
     "VCPKG_PLATFORM_TOOLSET", "VCPKG_VISUAL_STUDIO_PATH"}

\* Strings::split(s, delimiter): the pieces between the delimiters, and the
\* rest after the last delimiter unless nothing is after it
RECURSIVE Split(_, _)
Split(s, delimiter) ==
    LET at == {i \in 1..Len(s) : s[i] = delimiter}
    IN IF at = {} THEN (IF s = <<>> THEN <<>> ELSE <<s>>)
       ELSE LET pos == CHOOSE i \in at : \A j \in at : i <= j
            IN <<SubSeq(s, 1, pos - 1)>> \o Split(SubSeq(s, pos + 1, Len(s)), delimiter)

\* the lines the child process can print
OutputLines ==
    LET names == KnownVariables \cup {"VCPKG_UNKNOWN"}
        values == {"x", "y"}
    IN {<<>>, <<FLAG_GUID>>, <<"=">>}
       \cup {<<k>> : k \in names}
       \cup {<<k, "=">> : k \in names}
       \cup {<<"=", v>> : v \in values}
       \cup {<<k, "=", v>> : k \in names, v \in values}
       \cup {<<k, "=", v, "=">> : k \in names, v \in values}
       \cup {<<k, "=", "=", v>> : k \in names, v \in values}
       \cup {<<k, "=", v, "=", w>> : k \in names, v \in values, w \in values}

\* a default-constructed PreBuildInfo; an Optional is a set with at most one element
DefaultPreBuildInfo ==
    [target_architecture |-> <<>>, cmake_system_name |-> <<>>,
     cmake_system_version |-> <<>>, platform_toolset |-> {}, visual_studio_path |-> {}]

\* lines 495-528: what one line after the sentinel does to pre_build_info, or
\* the exit of the process
ParseLine(info, line) ==
    LET s == Split(line, "=")
        fatal == [fatal |-> TRUE, info |-> info]
        set(updated) == [fatal |-> FALSE, info |-> updated]
    IN
    IF ~(Len(s) = 1 \/ Len(s) = 2) THEN fatal
    ELSE LET variable_name == s[1]
             variable_value == IF Len(s) = 1 THEN <<>> ELSE s[2]
             optional == IF variable_value = <<>> THEN {} ELSE {variable_value}
         IN CASE variable_name = <<"VCPKG_TARGET_ARCHITECTURE">> ->
                    set([info EXCEPT !.target_architecture = variable_value])
              [] variable_name = <<"VCPKG_CMAKE_SYSTEM_NAME">> ->
                    set([info EXCEPT !.cmake_system_name = variable_value])
              [] variable_name = <<"VCPKG_CMAKE_SYSTEM_VERSION">> ->
                    set([info EXCEPT !.cmake_system_version = variable_value])
              [] variable_name = <<"VCPKG_PLATFORM_TOOLSET">> ->
                    set([info EXCEPT !.platform_toolset = optional])
              [] variable_name = <<"VCPKG_VISUAL_STUDIO_PATH">> ->
                    set([info EXCEPT !.visual_studio_path = optional])
              [] OTHER -> fatal

\* lines 474-475: the child has run
TripletChildExits ==
    /\ call.fn = "from_triplet_file" /\ call.at = "start"
    /\ \E exit_code \in {0, 1} :
          call' = [call EXCEPT !.at = IF exit_code = 0 THEN "seek" ELSE "fatal"]
    /\ UNCHANGED run_vars

\* line 482: std::find passes over a line, or stops behind the sentinel
TripletSeek ==
    /\ call.at = "seek"
    /\ call.n < MaxLines
    /\ \E line \in OutputLines :
          call' = [call EXCEPT !.n = @ + 1, !.line = line,
                               !.at = IF line = <<FLAG_GUID>> THEN "parse" ELSE "seek"]
    /\ UNCHANGED run_vars

\* lines 485-528: one turn of the loop
TripletParse ==
    /\ call.at = "parse"
    /\ call.n < MaxLines
    /\ \E line \in OutputLines :
          LET parsed == ParseLine(call.info, line)
          IN call' = IF parsed.fatal
                     THEN [call EXCEPT !.n = @ + 1, !.line = line, !.at = "fatal"]
                     ELSE [call EXCEPT !.n = @ + 1, !.line = line, !.info = parsed.info]
    /\ UNCHANGED run_vars

\* line 531: the output has no more lines
TripletReturn ==
    /\ call.at \in {"seek", "parse"}
    /\ call' = [call EXCEPT !.at = "returned"]
    /\ UNCHANGED run_vars

\* no executor is running while a single function is under check
Idle ==
    /\ action_plan = <<>> /\ keep_going = FALSE /\ feature_packages = FALSE
    /\ counter = 0 /\ results = <<>> /\ pc = "idle" /\ result = "NULLVALUE"
    /\ cur = "p" /\ build_code = "NULLVALUE" /\ unmet = <<>> /\ fi = 0
    /\ output = <<>> /\ status_db = [k \in Keys |-> Absent] /\ updates = <<>>
    /\ sandbox = [pkg \in Pkgs |-> {}] /\ installed = {}
    /\ listfiles = [pkg \in Pkgs |-> <<>>] /\ children = 0
    /\ install_result = "NONE" /\ removed_failed = {} /\ killed_at = "none"
    /\ had_record = FALSE /\ return_code = 0 /\ error_count = 0
    /\ control_written = FALSE /\ snap = <<>> /\ console = <<>>

InitTriplet ==
    /\ Idle
    /\ call = [fn |-> "from_triplet_file", at |-> "start", n |-> 0, line |-> <<>>,
               info |-> DefaultPreBuildInfo]

NextTriplet ==
    \/ TripletChildExits
    \/ TripletSeek
    \/ TripletParse
    \/ TripletReturn

SpecTriplet == InitTriplet /\ [][NextTriplet]_vars

-----------------------------------------------------------------------------
(* Build::to_vcvarsall_toolchain *)

(* The conflict scan of Install::install_package over installed packages of
   two triplets *)

\* the packages of the scan: those of the executor and one of another triplet
ScanPkgs == Pkgs \cup {"s"}

\* the listfiles a package can have: as a complete install writes it, or
\* without the lines of the files whose status could not be read
ListfilesOf(pkg) ==
    LET full == SortStrings(InstallFilesOf(pkg, {}, {}, {}).out)
    IN {full, SelectSeq(full, LAMBDA line : line[Len(line)] = "/")}

\* what get_installed_files can return while the package is not installed
InstalledFileSets(pkg) ==
    {pgh_and_files \in SUBSET UNION {{[pkg |-> x, files |-> l] : l \in ListfilesOf(x)} :
                                        x \in ScanPkgs \ {pkg}} :
        \A t, u \in pgh_and_files : t.pkg = u.pkg => t = u}

\* lines 715-743 of install_package: FILE_CONFLICTS is returned when the
\* intersection is not empty, the install goes on otherwise
ScanForConflicts ==
    /\ call.fn = "install_package" /\ call.at = "start"
    /\ call' = [call EXCEPT
                  !.at = IF ConflictScan(call.pkg, call.pgh_and_files) # <<>>
                         THEN "FILE_CONFLICTS" ELSE "half_installed"]
    /\ UNCHANGED run_vars

InitScan ==
    /\ action_plan = <<>> /\ keep_going = FALSE /\ feature_packages = FALSE
    /\ counter = 0 /\ results = <<>> /\ pc = "idle" /\ result = "NULLVALUE"
    /\ cur = "p" /\ build_code = "NULLVALUE" /\ unmet = <<>> /\ fi = 0
    /\ output = <<>> /\ status_db = [k \in Keys |-> Absent] /\ updates = <<>>
    /\ sandbox = [pkg \in ScanPkgs |-> Cached(pkg)] /\ installed = {}
    /\ listfiles = [pkg \in Pkgs |-> <<>>] /\ children = 0
    /\ install_result = "NONE" /\ removed_failed = {} /\ killed_at = "none"
    /\ had_record = FALSE /\ return_code = 0 /\ error_count = 0
    /\ control_written = FALSE /\ snap = <<>> /\ console = <<>>
    /\ \E pkg \in ScanPkgs : \E pgh_and_files \in InstalledFileSets(pkg) :
          call = [fn |-> "install_package", at |-> "start", pkg |-> pkg,
                  pgh_and_files |-> pgh_and_files]

NextScan == ScanForConflicts

SpecScan == InitScan /\ [][NextScan]_vars

------------------------------------------------------------------------------

ToolsetArchOption(name, host_arch, target_arch) ==
    [name |-> name, host_arch |-> host_arch, target_arch |-> target_arch]

\* the options find_toolset_instances can give a VS2017 toolset, in its order
ArchOptionTable ==
    <<ToolsetArchOption("x86", "X86", "X86"),
      ToolsetArchOption("amd64", "X64", "X64"),
      ToolsetArchOption("x86_amd64", "X86", "X64"),
      ToolsetArchOption("x86_arm", "X86", "ARM"),
      ToolsetArchOption("amd64_x86", "X64", "X86"),
      ToolsetArchOption("amd64_arm", "X64", "ARM")>>

\* Toolset::supported_architectures: the options whose compiler directory exists
SupportedArchitectures(present) ==
    SelectSeq(ArchOptionTable, LAMBDA opt : opt.name \in present)

\* System::to_cpu_architecture; "nullopt" for a string that names none
ToCpuArchitecture(arch) ==
    CASE arch = "x86" -> "X86"
      [] arch = "x64" -> "X64"
      [] arch = "amd64" -> "X64"
      [] arch = "arm" -> "ARM"
      [] arch = "arm64" -> "ARM64"
      [] OTHER -> "nullopt"

\* System::get_supported_host_architectures on a 32-bit and on a 64-bit host
HostArchitectureLists == {<<"X86">>, <<"X64", "X86">>}

\* Util::find_if over supported_architectures: the first option of the pair
FindOption(options, host, target_arch) ==
    SelectSeq(options, LAMBDA opt : host = opt.host_arch /\ target_arch = opt.target_arch)

\* lines 178-184: the loop over the host architectures, from position i
RECURSIVE ToolchainFrom(_, _, _, _)
ToolchainFrom(hosts, i, options, target_arch) ==
    IF i > Len(hosts) THEN [at |-> "fatal", ret |-> "Unsupported toolchain combination"]
    ELSE IF FindOption(options, hosts[i], target_arch) # <<>>
    THEN [at |-> "returned", ret |-> FindOption(options, hosts[i], target_arch)[1].name]
    ELSE ToolchainFrom(hosts, i + 1, options, target_arch)

\* to_vcvarsall_toolchain(target_architecture, toolset)
ToVcvarsallToolchain ==
    /\ call.fn = "to_vcvarsall_toolchain" /\ call.at = "start"
    /\ LET target_arch == ToCpuArchitecture(call.target_architecture)
       IN call' = IF target_arch = "nullopt"
                  THEN [call EXCEPT !.at = "fatal", !.ret = "Invalid architecture string"]
                  ELSE LET r == ToolchainFrom(call.hosts, 1, call.supported_architectures,
                                              target_arch)
                       IN [call EXCEPT !.at = r.at, !.ret = r.ret]
    /\ UNCHANGED run_vars

InitToolchain ==
    /\ Idle
    /\ \E target_architecture \in {"x86", "x64", "arm", "arm64", "ia64"},
          present \in SUBSET Range([i \in 1..Len(ArchOptionTable) |-> ArchOptionTable[i].name]),
          hosts \in HostArchitectureLists :
          call = [fn |-> "to_vcvarsall_toolchain", at |-> "start",
                  target_architecture |-> target_architecture,
                  supported_architectures |-> SupportedArchitectures(present),
                  hosts |-> hosts, ret |-> ""]

NextToolchain == ToVcvarsallToolchain

SpecToolchain == InitToolchain /\ [][NextToolchain]_vars

-----------------------------------------------------------------------------
(* Build::read_build_info and inner_create_buildinfo.  A paragraph is a set of
   <<field, value>> pairs with distinct fields. *)

(* Toolset discovery: find_toolset_instances and VcpkgPaths::get_toolset.  A
   path is a sequence of components; Toolset::supported_architectures, which
   discovery only copies, is left out of a Toolset. *)

V_140 == "v140"
V_141 == "v141"

\* the installation path of the VS2017 instance of a version, and of VS2015
InstallationPath(version) == <<<<"vs2017", version>>>>
Vs2015Path == <<"vs2015">>

\* the files discovery looks for, below an installation path
Vs2015VcvarsallBat == Vs2015Path \o <<"VC", "vcvarsall.bat">>
Vs2015DumpbinExe == Vs2015Path \o <<"VC", "bin", "dumpbin.exe">>
VcvarsallBat(instance) == instance \o <<"VC", "Auxiliary", "Build", "vcvarsall.bat">>
MsvcSubdirectories(instance) == {instance \o <<"VC", "Tools", "MSVC", "14.1">>}
DumpbinPath(subdir) == subdir \o <<"bin", "HostX86", "x86", "dumpbin.exe">>

\* the files a machine can hold: any of the files above, for VS2015 and for
\* VS2017 instances of distinct versions
InstanceVersions == 1..MaxInstances

MachineFiles ==
    {Vs2015VcvarsallBat, Vs2015DumpbinExe}
    \cup {VcvarsallBat(InstallationPath(v)) : v \in InstanceVersions}
    \cup UNION {{DumpbinPath(d) : d \in MsvcSubdirectories(InstallationPath(v))} :
                   v \in InstanceVersions}

\* findVisualStudioInstallationInstances.ps1, lines 13-33 and 50-53: one line
\* "<weight>::<releaseType>::<version>::<path>" for each instance, sorted and
\* reversed, so that the highest version of a release type comes first
RECURSIVE Descending(_)
Descending(S) ==
    IF S = {} THEN <<>>
    ELSE LET v == CHOOSE x \in S : \A y \in S : y <= x
         IN <<v>> \o Descending(S \ {v})

FindVisualStudioInstallationInstances(versions) ==
    [i \in 1..Cardinality(versions) |->
        <<"PreferenceWeight3::StableRelease", Descending(versions)[i]>>
        \o InstallationPath(Descending(versions)[i])]

\* the lines of a script that prints the installation path alone, which is
\* what line 328 takes a line to be
InstallationPathLines(versions) ==
    [i \in 1..Cardinality(versions) |-> InstallationPath(Descending(versions)[i])]

Toolset(dumpbin, vcvarsall, vcvarsall_options, version) ==
    [dumpbin |-> dumpbin, vcvarsall |-> vcvarsall,
     vcvarsall_options |-> vcvarsall_options, version |-> version]

NoToolset == [version |-> "nullopt"]

\* lines 288-320: the VS2015 instance named by VS140COMNTOOLS
FindVs2015 ==
    /\ call.fn = "get_toolset" /\ call.at = "start"
    /\ call' = [call EXCEPT
                  !.at = "vs2017",
                  !.found_toolsets =
                      IF /\ call.vs2015_installation_instance
                         /\ Vs2015VcvarsallBat \in call.files
                         /\ Vs2015DumpbinExe \in call.files
                      THEN <<Toolset(Vs2015DumpbinExe, Vs2015VcvarsallBat, <<>>, V_140)>>
                      ELSE <<>>]
    /\ UNCHANGED run_vars

\* lines 326-375: one pass of the loop over the VS2017 instances
FindVs2017Instance ==
    /\ call.fn = "get_toolset" /\ call.at = "vs2017"
    /\ call.i < Len(call.vs2017_installation_instances)
    /\ LET instance == call.vs2017_installation_instances[call.i + 1]
           vcvarsall_bat == VcvarsallBat(instance)
           with_dumpbin == {d \in MsvcSubdirectories(instance) : DumpbinPath(d) \in call.files}
           vs2017_toolset ==
               IF with_dumpbin # {}
               THEN Toolset(DumpbinPath(CHOOSE d \in with_dumpbin : TRUE), vcvarsall_bat,
                            <<>>, V_141)
               ELSE call.vs2017_toolset
       IN IF vcvarsall_bat \notin call.files
          THEN call' = [call EXCEPT !.i = @ + 1]
          ELSE call' = [call EXCEPT
                          !.i = @ + 1,
                          !.vs2017_toolset = vs2017_toolset,
                          !.found_toolsets =
                              IF vs2017_toolset # NoToolset
                              THEN Append(@, vs2017_toolset) ELSE @]
    /\ UNCHANGED run_vars

\* lines 377-389: exit_fail when nothing was found
FindToolsetInstancesReturn ==
    /\ call.fn = "get_toolset" /\ call.at = "vs2017"
    /\ call.i = Len(call.vs2017_installation_instances)
    /\ call' = [call EXCEPT !.at = IF call.found_toolsets = <<>> THEN "fatal" ELSE "found"]
    /\ UNCHANGED run_vars

\* create_vs2017_v140_toolset_instances
CreateVs2017V140ToolsetInstances(vs_toolsets) ==
    IF \A i \in 1..Len(vs_toolsets) : vs_toolsets[i].version # V_140
    THEN <<>>
    ELSE LET v141 == SelectSeq(vs_toolsets, LAMBDA t : t.version = V_141)
         IN [i \in 1..Len(v141) |->
                Toolset(v141[i].dumpbin, v141[i].vcvarsall, <<"-vcvars_ver=14.0">>, V_140)]

\* VcpkgPaths::get_toolset, lines 429-448
GetToolset ==
    /\ call.fn = "get_toolset" /\ call.at = "found"
    /\ LET vs_toolsets == call.found_toolsets
           matching == SelectSeq(vs_toolsets, LAMBDA t : t.version = call.toolset_version)
           vs2017_v140_toolsets == CreateVs2017V140ToolsetInstances(vs_toolsets)
       IN call' =
            IF call.toolset_version = ""
            THEN [call EXCEPT !.at = "returned", !.ret = vs_toolsets[Len(vs_toolsets)]]
            ELSE IF matching = <<>>
            THEN [call EXCEPT !.at = "fatal"]
            ELSE IF call.toolset_version = V_140 /\ vs2017_v140_toolsets # <<>>
            THEN [call EXCEPT !.at = "returned",
                              !.ret = vs2017_v140_toolsets[Len(vs2017_v140_toolsets)]]
            ELSE [call EXCEPT !.at = "returned", !.ret = matching[1]]
    /\ UNCHANGED run_vars

InitToolsets ==
    /\ Idle
    /\ \E toolset_version \in {"", V_140, V_141, "v120"},
          vs2015_installation_instance \in BOOLEAN,
          files \in SUBSET MachineFiles,
          versions \in SUBSET InstanceVersions,
          as_paths \in BOOLEAN :
          /\ ~vs2015_installation_instance =>
                files \cap {Vs2015VcvarsallBat, Vs2015DumpbinExe} = {}
          /\ \A v \in InstanceVersions \ versions :
                /\ VcvarsallBat(InstallationPath(v)) \notin files
                /\ \A d \in MsvcSubdirectories(InstallationPath(v)) :
                      DumpbinPath(d) \notin files
          /\ call = [fn |-> "get_toolset", at |-> "start",
                     toolset_version |-> toolset_version,
                     vs2015_installation_instance |-> vs2015_installation_instance,
                     files |-> files,
                     versions |-> versions,
                     vs2017_installation_instances |->
                         IF as_paths THEN InstallationPathLines(versions)
                         ELSE FindVisualStudioInstallationInstances(versions),
                     i |-> 0, found_toolsets |-> <<>>, vs2017_toolset |-> NoToolset,
                     ret |-> NoToolset]

NextToolsets ==
    \/ FindVs2015
    \/ FindVs2017Instance
    \/ FindToolsetInstancesReturn
    \/ GetToolset

SpecToolsets == InitToolsets /\ [][NextToolsets]_vars

------------------------------------------------------------------------------

G_ALL_POLICIES ==
    <<"EMPTY_PACKAGE", "DLLS_WITHOUT_LIBS", "ONLY_RELEASE_CRT", "EMPTY_INCLUDE_FOLDER",
      "ALLOW_OBSOLETE_MSVCRT">>

\* to_cmake_variable(BuildPolicy)
ToCmakeVariable(policy) ==
    CASE policy = "EMPTY_PACKAGE" -> "VCPKG_POLICY_EMPTY_PACKAGE"
      [] policy = "DLLS_WITHOUT_LIBS" -> "VCPKG_POLICY_DLLS_WITHOUT_LIBS"
      [] policy = "ONLY_RELEASE_CRT" -> "VCPKG_POLICY_ONLY_RELEASE_CRT"
      [] policy = "EMPTY_INCLUDE_FOLDER" -> "VCPKG_POLICY_EMPTY_INCLUDE_FOLDER"
      [] policy = "ALLOW_OBSOLETE_MSVCRT" -> "VCPKG_POLICY_ALLOW_OBSOLETE_MSVCRT"

\* PolicyToString that gives the name of the CMake variable
PolicyToString_CmakeVariable(policy) == ToCmakeVariable(policy)

\* to_string(BuildPolicy)
PolicyToString(policy) ==
    CASE policy = "EMPTY_PACKAGE" -> "PolicyEmptyPackage"
      [] policy = "DLLS_WITHOUT_LIBS" -> "PolicyDLLsWithoutLIBs"
      [] policy = "ONLY_RELEASE_CRT" -> "PolicyOnlyReleaseCRT"
      [] policy = "EMPTY_INCLUDE_FOLDER" -> "PolicyEmptyIncludeFolder"
      [] policy = "ALLOW_OBSOLETE_MSVCRT" -> "PolicyAllowObsoleteMsvcrt"

\* to_linkage_type; an Optional is a set with at most one element
ToLinkageType(str) ==
    IF str = "dynamic" THEN {"DYNAMIC"} ELSE IF str = "static" THEN {"STATIC"} ELSE {}

\* ParagraphParser::optional_field: the value of the field, "" when it is absent
OptionalField(pgh, field) ==
    IF \E e \in pgh : e[1] = field THEN (CHOOSE e \in pgh : e[1] = field)[2] ELSE ""

\* ParagraphParser::error_info: fields that were required and are missing, or
\* fields that no required_field or optional_field call took
ErrorInfo(pgh, required, taken) ==
    \/ \E field \in required : ~(\E e \in pgh : e[1] = field)
    \/ \E e \in pgh : e[1] \notin taken

\* inner_create_buildinfo: the BuildInfo, or the exit of the process
InnerCreateBuildinfo(pgh) ==
    LET crtlinkage == ToLinkageType(OptionalField(pgh, "CRTLinkage"))
        liblinkage == ToLinkageType(OptionalField(pgh, "LibraryLinkage"))
        version == OptionalField(pgh, "Version")
        setting(k) == OptionalField(pgh, PolicyToString(G_ALL_POLICIES[k]))
        set == {k \in DOMAIN G_ALL_POLICIES : setting(k) # ""}
        fields == {"CRTLinkage", "LibraryLinkage", "Version"}
                     \cup {PolicyToString(G_ALL_POLICIES[k]) : k \in DOMAIN G_ALL_POLICIES}
    IN IF \/ crtlinkage = {}
          \/ liblinkage = {}
          \/ \E k \in set : setting(k) \notin {"enabled", "disabled"}
          \/ ErrorInfo(pgh, {"CRTLinkage", "LibraryLinkage"}, fields)
       THEN [at |-> "fatal", ret |-> <<>>]
       ELSE [at |-> "returned",
             ret |-> [crt_linkage |-> CHOOSE l \in crtlinkage : TRUE,
                      library_linkage |-> CHOOSE l \in liblinkage : TRUE,
                      version |-> IF version = "" THEN {} ELSE {version},
                      policies |-> {<<G_ALL_POLICIES[k], setting(k) = "enabled">> : k \in set}]]

\* read_build_info(fs, filepath)
ReadBuildInfo ==
    /\ call.fn = "read_build_info" /\ call.at = "start"
    /\ call' = IF ~call.single_paragraph
               THEN [call EXCEPT !.at = "fatal"]
               ELSE [call EXCEPT !.at = InnerCreateBuildinfo(call.pgh).at,
                                 !.ret = InnerCreateBuildinfo(call.pgh).ret]
    /\ UNCHANGED run_vars

\* the BUILD_INFO paragraphs a port can leave
BuildInfoParagraphs ==
    LET linkage == {"dynamic", "static", "shared"}
        opt(field, values) == {{}} \cup {{<<field, v>>} : v \in values}
    IN {a \cup b \cup c \cup d \cup e \cup f :
          a \in opt("CRTLinkage", linkage \cup {""}),
          b \in opt("LibraryLinkage", linkage),
          c \in opt("Version", {"1"}),
          d \in UNION {opt(field, {"", "enabled", "disabled", "on"}) :
                          field \in {"PolicyEmptyPackage", "PolicyDLLsWithoutLIBs",
                                     "PolicyEmptyIncludeFolder", "PolicyAllowObsoleteMsvcrt"}},
          e \in opt("PolicyOnlyReleaseCRT", {"disabled"}),
          f \in opt("VCPKG_POLICY_EMPTY_PACKAGE", {"enabled"}) \cup opt("Description", {"x"})}

InitBuildInfo ==
    /\ Idle
    /\ \E pgh \in {p \in BuildInfoParagraphs :
                     \A x, y \in p : x[1] = y[1] => x = y},
          single_paragraph \in BOOLEAN :
          /\ single_paragraph \/ pgh = {}
          /\ call = [fn |-> "read_build_info", at |-> "start", pgh |-> pgh,
                     single_paragraph |-> single_paragraph, ret |-> <<>>]

NextBuildInfo == ReadBuildInfo

SpecBuildInfo == InitBuildInfo /\ [][NextBuildInfo]_vars

InstalledRecord == [want |-> "INSTALL", state |-> "INSTALLED"]
HalfInstalledRecord == [want |-> "INSTALL", state |-> "HALF_INSTALLED"]

\* the dependencies of a package that are not INSTALLED in the status database
NotInstalledDeps(pkg) == {d \in Depends(pkg) : status_db[<<d, "">>] # InstalledRecord}

\* a step of build_package (a step from "build" that is not the termination)
BuildStep == pc = "build" /\ pc' \in {"built", "fatal"}

\* C1: build_package runs a child process only when every dependency in the
\* port's depends is INSTALLED in the status database; when some are not it
\* returns CASCADED_DUE_TO_MISSING_DEPENDENCIES with exactly those specs,
\* having run no child and written no file.
C1_BuildOnlyWithDependenciesInstalled ==
    [][BuildStep =>
         /\ (children' # children => NotInstalledDeps(cur) = {})
         /\ (NotInstalledDeps(cur) # {} =>
               /\ pc' = "built"
               /\ build_code' = "CASCADED_DUE_TO_MISSING_DEPENDENCIES"
               /\ Len(unmet') = Cardinality(NotInstalledDeps(cur))
               /\ {<<m.name, m.triplet>> : m \in Range(unmet')}
                     = {<<Name(d), TripletOf(cur)>> : d \in NotInstalledDeps(cur)}
               /\ children' = children
               /\ UNCHANGED <<sandbox, installed, listfiles, updates>>)
         /\ (NotInstalledDeps(cur) = {} =>
               build_code' # "CASCADED_DUE_TO_MISSING_DEPENDENCIES")]_vars

C1_Witness ==
    /\ pc = "built"
    /\ build_code = "CASCADED_DUE_TO_MISSING_DEPENDENCIES"
    /\ unmet # <<>>
    /\ children = snap.children
    /\ sandbox = snap.sandbox

\* C2: when the dependency check passed and build_package returned, its result
\* is BUILD_FAILED for a nonzero exit code of the child, POST_BUILD_CHECKS_FAILED
\* for exit code zero with lint errors, SUCCEEDED for exit code zero without;
\* the binary CONTROL file is written exactly when the result is SUCCEEDED.
C2_ResultClassification ==
    /\ (control_written => build_code = "SUCCEEDED")
    /\ (pc = "built" /\ build_code # "CASCADED_DUE_TO_MISSING_DEPENDENCIES" =>
          /\ (return_code # 0 => build_code = "BUILD_FAILED")
          /\ (return_code = 0 /\ error_count > 0 =>
                build_code = "POST_BUILD_CHECKS_FAILED")
          /\ (return_code = 0 /\ error_count = 0 => build_code = "SUCCEEDED")
          /\ (build_code = "SUCCEEDED" =>
                control_written /\ File(CONTROL_NAME) \in sandbox[cur])
          /\ (build_code = "POST_BUILD_CHECKS_FAILED" =>
                File(CONTROL_NAME) \notin sandbox[cur]))

C2_Witness ==
    /\ pc = "built"
    /\ build_code = "SUCCEEDED"
    /\ return_code = 0 /\ error_count = 0
    /\ control_written
    /\ File(CONTROL_NAME) \in sandbox[cur]
    /\ File(CONTROL_NAME) \notin snap.sandbox[cur]

\* the listfile lines of the packages installed for a triplet
InstalledLines(triplet) ==
    UNION {Range(listfiles[x]) :
             x \in {y \in Pkgs : /\ status_db[<<y, "">>] = InstalledRecord
                                 /\ TripletOf(y) = triplet}}

\* the paths of a sandbox that are listed as installed for the package's triplet
Conflicts(pkg) ==
    {e.path : e \in {x \in sandbox[pkg] :
                       (TripletOf(pkg) \o Slash \o x.path) \in InstalledLines(TripletOf(pkg))}}

\* C3: when the files of the sandbox intersect the files installed for the
\* triplet, install_package returns FILE_CONFLICTS and changes nothing: not the
\* prefix, the sandbox, the listfiles, the journal or the in-memory database.
C3_ConflictLeavesEverythingUnchanged ==
    [][pc = "inst_scan" /\ pc' \notin {"terminated", "fatal"} /\ Conflicts(cur) # {} =>
         /\ pc' = "inst_ret"
         /\ install_result' = "FILE_CONFLICTS"
         /\ UNCHANGED <<installed, sandbox, listfiles, updates, status_db>>]_vars

C3_Witness ==
    /\ pc = "inst_ret"
    /\ install_result = "FILE_CONFLICTS"
    /\ Conflicts(cur) # {}
    /\ installed = snap.installed
    /\ updates = snap.updates

\* the positions of the process inside install_package, entry to return
InstallPcs ==
    {"inst_scan", "inst_w_half", "inst_i_half", "inst_fw_half", "inst_fi_half",
     "inst_listfile", "inst_w_inst", "inst_i_inst", "inst_fw_inst", "inst_fi_inst",
     "inst_ret"}

\* the core paragraph and the feature paragraphs of the package being installed
Paragraphs(pkg) == {""} \cup Range(BcfFeatures(pkg))

\* C4: in a conflict-free install_package a HALF_INSTALLED (want INSTALL) record
\* is journaled for the core paragraph and every feature paragraph before any
\* file is copied into the prefix, the listfile is written after all copying,
\* and a record is upgraded to INSTALLED only after the listfile was written.
C4_InstallOrder ==
    [][(pc \in InstallPcs) =>
         /\ (installed' # installed =>
               /\ \A f \in Paragraphs(cur) :
                     Journaled(updates, <<cur, f>>) = HalfInstalledRecord
               /\ listfiles[cur] = <<>>
               /\ listfiles' = listfiles)
         /\ (listfiles' # listfiles =>
               /\ installed' = installed
               /\ \A f \in Paragraphs(cur) :
                     Journaled(updates, <<cur, f>>) = HalfInstalledRecord)
         /\ (listfiles[cur] # <<>> => installed' = installed)
         /\ ((Len(updates') > Len(updates) /\ updates'[Len(updates')].state = "INSTALLED")
               => (listfiles[cur] # <<>> /\ listfiles' = listfiles))]_vars

C4_Witness ==
    /\ pc = "inst_ret"
    /\ install_result = "SUCCESS"
    /\ BcfFeatures(cur) # <<>>
    /\ installed # snap.installed
    /\ listfiles[cur] # <<>>
    /\ snap.listfiles[cur] = <<>>
    /\ \A f \in Paragraphs(cur) : Journaled(updates, <<cur, f>>) = InstalledRecord

\* C5: a process terminated inside the install of a package that had no record
\* never leaves one record of the package journaled INSTALLED while another
\* record of the same package is journaled HALF_INSTALLED (the records of an
\* interrupted install are HALF_INSTALLED or absent).
C5_InterruptedInstallNeverMixed ==
    pc = "terminated" /\ killed_at \in InstallPcs /\ ~had_record =>
       ~(\E f, g \in Paragraphs(cur) :
            /\ Journaled(updates, <<cur, f>>).state = "INSTALLED"
            /\ Journaled(updates, <<cur, g>>).state = "HALF_INSTALLED")

\* two packages of one triplet whose trees hold the same relative file path
SharesFile(x, y) ==
    /\ x # y
    /\ TripletOf(x) = TripletOf(y)
    /\ FilePaths(x) \cap FilePaths(y) # {}

\* the installer has returned for the package of the current action, and an
\* earlier install action of this run, of a package owning one of its files,
\* was recorded SUCCEEDED
SecondOfTwoConflicting(x) ==
    /\ pc = "ret"
    /\ action_plan[counter].kind = "install"
    /\ install_result # "NONE"
    /\ \E i \in 1..(counter - 1) :
          /\ action_plan[i] \in {InstallPlanAction(x, "INSTALL"),
                                 InstallPlanAction(x, "BUILD_AND_INSTALL")}
          /\ results[i] = "SUCCEEDED"
    /\ SharesFile(x, cur)

ListsSharedFile(x, y) ==
    \E path \in FilePaths(x) \cap FilePaths(y) :
       (TripletOf(x) \o Slash \o path) \in Range(listfiles[x])

InstalledIn(triplet) ==
    {x \in Pkgs : status_db[<<x, "">>] = InstalledRecord /\ TripletOf(x) = triplet}

\* how many lines of the listfiles of the installed packages of a triplet are
\* the given path
Occurrences(path, triplet) ==
    Cardinality(UNION {{<<x, i>> : i \in {j \in DOMAIN listfiles[x] : listfiles[x][j] = path}} :
                          x \in InstalledIn(triplet)})

\* a listfile line for a directory ends in a slash
IsDirectoryEntry(line) == line[Len(line)] = "/"

InstallSucceeded == pc = "inst_ret" /\ install_result = "SUCCESS"

\* C7 as stated: when an install returns SUCCESS no path, file or directory,
\* is listed twice in the listfiles of the installed packages of a triplet.
C7_Original ==
    InstallSucceeded =>
       \A x \in Pkgs : \A path \in InstalledLines(TripletOf(x)) :
          Occurrences(path, TripletOf(x)) = 1

\* C7, amended: when an install returns SUCCESS no file path is listed twice in
\* the listfiles of the installed packages of a triplet; directory entries,
\* the triplet root entry among them, are listed by every package that has
\* files below them.
C7_NoFileListedTwice ==
    InstallSucceeded =>
       \A x \in Pkgs : \A path \in InstalledLines(TripletOf(x)) :
          /\ ~IsDirectoryEntry(path) => Occurrences(path, TripletOf(x)) = 1
          /\ path = TripletOf(x) \o Slash =>
                Occurrences(path, TripletOf(x)) = Cardinality(InstalledIn(TripletOf(x)))

C7_Witness ==
    /\ InstallSucceeded
    /\ \E x, y \in InstalledIn(TripletOf(cur)) :
          /\ x # y
          /\ \E a \in Range(listfiles[x]) : ~IsDirectoryEntry(a)
          /\ \E b \in Range(listfiles[y]) : ~IsDirectoryEntry(b)
          /\ Range(listfiles[x]) \cap Range(listfiles[y]) # {}

\* what the executor keeps true of its loop
ExecutorState ==
    /\ Len(results) = counter
    /\ keep_going => pc # "exit_fail"
    /\ pc = "exit_fail" =>
          action_plan[counter].kind = "install" /\ result # "SUCCEEDED"
    /\ pc = "exit_success" => counter = Len(action_plan)
    /\ \A i \in 1..Len(results) :
          action_plan[i].kind = "install" /\ (i < counter \/ pc \in {"loop", "exit_success"})
             => /\ results[i] # "NULLVALUE"
                /\ ~keep_going => results[i] = "SUCCEEDED"

\* what every step of the executor does to the loop
ExecutorStep ==
    /\ pc # "exit_fail"
    /\ pc = "ret" /\ pc' # "terminated" =>
          IF result # "SUCCEEDED" /\ ~keep_going
          THEN pc' = "exit_fail" /\ results' = results
          ELSE pc' = "loop" /\ results' = [results EXCEPT ![counter] = result]
    /\ pc # "ret" => \A i \in 1..Len(results) : results'[i] = results[i]
    /\ counter' # counter =>
          /\ counter' = counter + 1
          /\ cur' = action_plan[counter'].pkg
          /\ pc' = Dispatch(action_plan[counter'])
    /\ action_plan' = action_plan

\* C8: with keep_going off the first install action whose result is not
\* SUCCEEDED ends the run with exit_fail and nothing is performed after it; with
\* keep_going on the run never ends that way, the actions are performed in plan
\* order one after the other, and the result of each install action is stored
\* at its position in results.
C8_ExecutorContinuation == []ExecutorState /\ [][ExecutorStep]_vars

C8_Witness ==
    /\ keep_going
    /\ pc = "exit_success"
    /\ Len(action_plan) = 2
    /\ action_plan[2].kind = "install"
    /\ results[1] \notin {"SUCCEEDED", "NULLVALUE"}
    /\ results[2] # "NULLVALUE"

\* C9: a remove action whose removal failed is fatal to the run when keep_going
\* is off, and is recorded as a result other than NULLVALUE, the loop going on,
\* when keep_going is on.
C9_RemoveFailureFollowsKeepGoing ==
    \A i \in removed_failed :
       pc # "terminated" =>
          IF keep_going THEN results[i] # "NULLVALUE"
          ELSE pc \in {"fatal", "exit_fail"} /\ counter = i

BuildAndInstall ==
    counter > 0 /\ action_plan[counter] = InstallPlanAction(cur, "BUILD_AND_INSTALL")

\* C10: in a BUILD_AND_INSTALL action the installer starts only after
\* build_package returned SUCCEEDED; any other build result is returned as it
\* is, with no status record written and no file copied; after a successful
\* build the result is SUCCEEDED when the installer returned SUCCESS and
\* FILE_CONFLICTS otherwise.
C10_BuildThenInstall ==
    BuildAndInstall =>
       /\ pc \in InstallPcs => build_code = "SUCCEEDED"
       /\ pc = "ret" /\ build_code # "SUCCEEDED" =>
             /\ result = build_code
             /\ install_result = "NONE"
             /\ status_db = snap.status_db
             /\ updates = snap.updates
             /\ installed = snap.installed
             /\ listfiles = snap.listfiles
       /\ pc = "ret" /\ build_code = "SUCCEEDED" =>
             /\ install_result \in {"SUCCESS", "FILE_CONFLICTS"}
             /\ result = "SUCCEEDED" <=> install_result = "SUCCESS"
             /\ install_result # "SUCCESS" => result = "FILE_CONFLICTS"

C10_Witness ==
    /\ BuildAndInstall
    /\ pc = "ret"
    /\ build_code \in {"BUILD_FAILED", "POST_BUILD_CHECKS_FAILED"}
    /\ result = build_code

\* the action being performed is an install action of the given plan type
ActionIs(plan_type) ==
    counter > 0 /\ action_plan[counter] = InstallPlanAction(cur, plan_type)

\* C11: an ALREADY_INSTALLED action returns SUCCEEDED and changes neither the
\* status database, the journal, the prefix, the listfiles nor the sandboxes,
\* and starts no child, whatever the request type and the use-head option; an
\* INSTALL action goes straight to install_package and never runs the build
\* driver.
C11_AlreadyInstalledNoOpInstallDirect ==
    /\ [][/\ pc = "already" /\ pc' # "terminated" =>
                /\ pc' = "ret"
                /\ result' = "SUCCEEDED"
                /\ UNCHANGED <<status_db, updates, installed, listfiles, sandbox, children>>
          /\ pc = "loop" /\ counter' = counter + 1
                /\ action_plan[counter'].kind = "install"
                /\ action_plan[counter'].plan_type = "INSTALL" => pc' = "inst_scan"]_vars
    /\ [](ActionIs("ALREADY_INSTALLED") /\ pc = "ret" =>
             /\ result = "SUCCEEDED"
             /\ status_db = snap.status_db /\ updates = snap.updates
             /\ installed = snap.installed /\ listfiles = snap.listfiles
             /\ sandbox = snap.sandbox /\ children = snap.children)
    /\ [](ActionIs("INSTALL") =>
             /\ pc \notin {"build", "built"}
             /\ build_code = "NULLVALUE"
             /\ children = snap.children
             /\ sandbox = snap.sandbox)

C11_Witness ==
    /\ ActionIs("ALREADY_INSTALLED")
    /\ pc = "ret"
    /\ console = <<"is already installed -- not building from HEAD">>
    /\ result = "SUCCEEDED"
    /\ \E i \in 1..(counter - 1) :
          action_plan[i].kind = "install" /\ action_plan[i].plan_type = "INSTALL"
             /\ results[i] = "SUCCEEDED"

\* an earlier action of this run installed the package and was recorded SUCCEEDED
InstalledEarlier(d) ==
    \E i \in 1..(counter - 1) :
       /\ action_plan[i] \in {InstallPlanAction(d, "INSTALL"),
                              InstallPlanAction(d, "BUILD_AND_INSTALL")}
       /\ results[i] = "SUCCEEDED"

\* C12: when an earlier action of the run installed d with result SUCCEEDED, the
\* dependency check of a later BUILD_AND_INSTALL of a package depending on d
\* finds d installed: d is not among the unmet dependencies, and the build is
\* not cascaded when all dependencies were installed that way.
C12_EarlierInstallVisibleToBuild ==
    ActionIs("BUILD_AND_INSTALL") /\ pc = "built" =>
       /\ \A d \in Depends(cur) :
             InstalledEarlier(d) =>
                \A k \in 1..Len(unmet) : unmet[k].name # Name(d)
       /\ (Depends(cur) # {} /\ \A d \in Depends(cur) : InstalledEarlier(d)) =>
             build_code # "CASCADED_DUE_TO_MISSING_DEPENDENCIES"

C12_Witness ==
    /\ ActionIs("BUILD_AND_INSTALL")
    /\ pc = "built"
    /\ InstalledEarlier("p")
    /\ "p" \in Depends(cur)
    /\ snap.updates # <<>>
    /\ build_code = "SUCCEEDED"

\* the journal holds the record the in-memory database has for the key
InJournal(key) ==
    \E i \in 1..Len(updates) :
       updates[i] = StatusParagraph(key[1], key[2], status_db[key].want, status_db[key].state)

\* positions of the executor between two plan actions, or after the last
BetweenActions == pc \in {"loop", "ret", "exit_success", "exit_fail"}

\* C13: a record is written to the journal before it is inserted in memory, so
\* the in-memory database never holds a record the journal lacks; between two
\* plan actions the journal and the in-memory database agree on every key, so
\* only the action in progress can be ahead in the journal.
C13_JournalBeforeMemory ==
    /\ [](\A key \in Keys : status_db[key] # Absent => InJournal(key))
    /\ [](BetweenActions => \A key \in Keys : status_db[key] = Journaled(updates, key))
    /\ [][\A key \in Keys :
             status_db'[key] # status_db[key] /\ pc \in InstallPcs =>
                /\ Journaled(updates, key) = status_db'[key]
                /\ updates' = updates]_vars

C13_Witness ==
    /\ counter = 2
    /\ pc = "inst_i_half"
    /\ action_plan[1].kind = "install"
    /\ action_plan[1].plan_type # "ALREADY_INSTALLED"
    /\ results[1] = "SUCCEEDED"
    /\ status_db[<<action_plan[1].pkg, "">>] = InstalledRecord
    /\ Journaled(updates, <<cur, "">>) = HalfInstalledRecord
    /\ status_db[<<cur, "">>] = Absent

\* the install actions of the plan whose spec the plan also removes
InstallsOfRemoved ==
    {a \in Range(action_plan) :
        a.kind = "install" /\ RemovePlanAction(a.pkg) \in Range(action_plan)}

HalfJournaledNoListfile == {"inst_i_half", "inst_fw_half", "inst_fi_half", "inst_listfile"}

EqualSigns(line) == {i \in 1..Len(line) : line[i] = "="}
KeyOf(line) ==
    IF EqualSigns(line) = {} THEN line
    ELSE SubSeq(line, 1, (CHOOSE i \in EqualSigns(line) : \A j \in EqualSigns(line) : i <= j) - 1)
ValueOf(line) ==
    IF EqualSigns(line) = {} THEN <<>>
    ELSE SubSeq(line, (CHOOSE i \in EqualSigns(line) : \A j \in EqualSigns(line) : i <= j) + 1,
                Len(line))

\* the field of a PreBuildInfo a variable sets, with the value an Optional holds
FieldOf(info, name) ==
    CASE name = "VCPKG_TARGET_ARCHITECTURE" -> info.target_architecture
      [] name = "VCPKG_CMAKE_SYSTEM_NAME" -> info.cmake_system_name
      [] name = "VCPKG_CMAKE_SYSTEM_VERSION" -> info.cmake_system_version
      [] name = "VCPKG_PLATFORM_TOOLSET" ->
            IF info.platform_toolset = {} THEN "nullopt"
            ELSE CHOOSE v \in info.platform_toolset : TRUE
      [] name = "VCPKG_VISUAL_STUDIO_PATH" ->
            IF info.visual_studio_path = {} THEN "nullopt"
            ELSE CHOOSE v \in info.visual_studio_path : TRUE

IsOptionalField(name) == name \in {"VCPKG_PLATFORM_TOOLSET", "VCPKG_VISUAL_STUDIO_PATH"}

\* C16: from_triplet_file discards the lines before the sentinel and parses
\* each line after it as KEY=VALUE: a line whose key is not a known variable or
\* that holds more than one '=' exits the process; any other line sets the
\* field of its key to the value (the empty string, or an absent optional, for
\* an empty or missing value), whatever the field held before, and leaves the
\* other fields alone.
C16_TripletOutputParsing ==
    [][/\ call.at = "seek" => call'.info = call.info
       /\ call.at = "parse" /\ call'.n = call.n + 1 =>
             LET line == call'.line
                 malformed == \/ Cardinality(EqualSigns(line)) > 1
                              \/ ~(\E k \in KnownVariables : KeyOf(line) = <<k>>)
             IN IF malformed THEN call'.at = "fatal"
                ELSE /\ call'.at = "parse"
                     /\ \A k \in KnownVariables :
                           FieldOf(call'.info, k) =
                              IF KeyOf(line) # <<k>> THEN FieldOf(call.info, k)
                              ELSE IF ValueOf(line) = <<>> /\ IsOptionalField(k)
                              THEN "nullopt"
                              ELSE ValueOf(line)]_vars

\* the host architectures, in the order of the list, that have an option for
\* the target in the toolset
HostsWithOption ==
    SelectSeq(call.hosts,
              LAMBDA host : \E opt \in Range(call.supported_architectures) :
                               /\ opt.host_arch = host
                               /\ opt.target_arch = ToCpuArchitecture(call.target_architecture))

\* C17: to_vcvarsall_toolchain returns the name of the toolset entry for the
\* target and the first supported host architecture that has one; when no
\* supported host has an entry for the target the outcome is the returned
\* result UNSUPPORTED_TOOLCHAIN and the process does not exit.
C17_ToolchainSelection ==
    call.fn = "to_vcvarsall_toolchain" /\ call.at # "start"
       /\ ToCpuArchitecture(call.target_architecture) # "nullopt" =>
          IF HostsWithOption = <<>>
          THEN call.at = "returned" /\ call.ret = "UNSUPPORTED_TOOLCHAIN"
          ELSE /\ call.at = "returned"
               /\ \E opt \in Range(call.supported_architectures) :
                     /\ opt.name = call.ret
                     /\ opt.host_arch = HostsWithOption[1]
                     /\ opt.target_arch = ToCpuArchitecture(call.target_architecture)

\* the fields of a paragraph and the value of one of them
FieldsOf(pgh) == {e[1] : e \in pgh}
ValueIn(pgh, field) == (CHOOSE e \in pgh : e[1] = field)[2]

\* a BUILD_INFO paragraph is acceptable when the policy fields have the names
\* NameOf gives: both linkages are present and 'dynamic' or 'static', every
\* policy field is empty, 'enabled' or 'disabled', and there is no other field
\* than these and Version
Acceptable(pgh, NameOf(_)) ==
    LET policy_fields == {NameOf(G_ALL_POLICIES[k]) : k \in DOMAIN G_ALL_POLICIES}
    IN /\ \A field \in {"CRTLinkage", "LibraryLinkage"} :
             field \in FieldsOf(pgh) /\ ValueIn(pgh, field) \in {"dynamic", "static"}
       /\ \A field \in policy_fields \cap FieldsOf(pgh) :
             ValueIn(pgh, field) \in {"", "enabled", "disabled"}
       /\ FieldsOf(pgh) \subseteq {"CRTLinkage", "LibraryLinkage", "Version"} \cup policy_fields

\* the BUILD_INFO field that sets a policy
PolicyField(policy) ==
    CASE policy = "EMPTY_PACKAGE" -> "PolicyEmptyPackage"
      [] policy = "DLLS_WITHOUT_LIBS" -> "PolicyDLLsWithoutLIBs"
      [] policy = "ONLY_RELEASE_CRT" -> "PolicyOnlyReleaseCRT"
      [] policy = "EMPTY_INCLUDE_FOLDER" -> "PolicyEmptyIncludeFolder"
      [] policy = "ALLOW_OBSOLETE_MSVCRT" -> "PolicyAllowObsoleteMsvcrt"

ReadBuildInfoDone ==
    call.fn = "read_build_info" /\ call.at # "start" /\ call.single_paragraph

\* C18 as stated: read_build_info accepts exactly the acceptable paragraphs
\* whose policy fields are named VCPKG_POLICY_<NAME>, and the policies map it
\* returns holds exactly the policies whose field was present.
C18_Original ==
    ReadBuildInfoDone =>
       /\ call.at = "returned" <=> Acceptable(call.pgh, ToCmakeVariable)
       /\ call.at = "returned" =>
             {e[1] : e \in call.ret.policies} =
                {G_ALL_POLICIES[k] : k \in {j \in DOMAIN G_ALL_POLICIES :
                                              ToCmakeVariable(G_ALL_POLICIES[j]) \in FieldsOf(call.pgh)}}

\* C18, amended: read_build_info accepts a paragraph exactly when CRTLinkage
\* and LibraryLinkage are present and 'dynamic' or 'static', each policy field,
\* named PolicyEmptyPackage, PolicyDLLsWithoutLIBs, PolicyOnlyReleaseCRT,
\* PolicyEmptyIncludeFolder or PolicyAllowObsoleteMsvcrt, is absent, empty,
\* 'enabled' or 'disabled', and no other field than these and Version is
\* there; the policies map returned holds exactly the policies whose field was
\* present with a non-empty value, true for 'enabled'.
C18_BuildInfoAcceptance ==
    ReadBuildInfoDone =>
       /\ call.at = "returned" <=> Acceptable(call.pgh, PolicyField)
       /\ call.at = "returned" =>
             /\ call.ret.policies =
                  {<<G_ALL_POLICIES[k], ValueIn(call.pgh, PolicyField(G_ALL_POLICIES[k])) = "enabled">> :
                      k \in {j \in DOMAIN G_ALL_POLICIES :
                               /\ PolicyField(G_ALL_POLICIES[j]) \in FieldsOf(call.pgh)
                               /\ ValueIn(call.pgh, PolicyField(G_ALL_POLICIES[j])) # ""}}
             /\ call.ret.version = {e[2] : e \in {x \in call.pgh : x[1] = "Version"}}

C18_Witness ==
    /\ ReadBuildInfoDone
    /\ call.at = "returned"
    /\ call.ret.policies = {<<"EMPTY_PACKAGE", TRUE>>, <<"ONLY_RELEASE_CRT", FALSE>>}
    /\ call.ret.version = {"1"}
    /\ call.ret.crt_linkage = "STATIC"

\* the prefix holds what a listfile line names: a directory for a line that
\* ends in a slash, a regular file copied from the package otherwise
LineInstalled(pkg, line) ==
    IF IsDirectoryEntry(line)
    THEN IsDirIn(installed, SubSeq(line, 1, Len(line) - 1))
    ELSE \E e \in installed : e.path = line /\ e.kind = "file" /\ e.content = pkg

\* the lines of a listfile are in ascending order
Ascending(lines) ==
    \A i, j \in 1..Len(lines) : i < j => ~StrLess(lines[j], lines[i])

\* C19: when an install returns SUCCESS the listfile of the package lists
\* exactly what the install put into the prefix: every line names a path that
\* is in the prefix (a directory for a line with a trailing slash, a file
\* copied from the package otherwise), every file copied from the package has
\* its line, the triplet root entry is there, and the lines ascend.
C19_ListfileIsWhatWasInstalled ==
    InstallSucceeded =>
       /\ \A line \in Range(listfiles[cur]) : LineInstalled(cur, line)
       /\ \A e \in installed :
             e.kind = "file" /\ e.content = cur => e.path \in Range(listfiles[cur])
       /\ (TripletOf(cur) \o Slash) \in Range(listfiles[cur])
       /\ Ascending(listfiles[cur])

\* the two files the installer leaves in the sandbox, relative to its root
ControlFiles == {CONTROL_NAME, BUILD_INFO_NAME}

\* C20: CONTROL and BUILD_INFO of the sandbox are never in the intersection
\* of the conflict scan, are never copied into the prefix and are in no
\* listfile; when an install returns SUCCESS every other regular file of the
\* sandbox, at any depth, has been copied into the prefix and is listed.
C20_ControlFilesExcluded ==
    /\ pc = "inst_scan" =>
          Range(Intersection(cur, status_db, listfiles)) \cap ControlFiles = {}
    /\ \A x \in Pkgs : \A name \in ControlFiles :
          /\ (TripletOf(x) \o Slash \o name) \notin Range(listfiles[x])
          /\ ~IsFileIn(installed, TripletOf(x) \o Slash \o name)
    /\ InstallSucceeded =>
          \A f \in sandbox[cur] :
             f.kind = "file" /\ f.path \notin ControlFiles =>
                LET target == TripletOf(cur) \o Slash \o f.path
                IN /\ target \in Range(listfiles[cur])
                   /\ \E e \in installed :
                         e.path = target /\ e.kind = "file" /\ e.content = cur

\* a regular file of the sandbox, other than the files the copy loop skips,
\* whose target in the prefix is a regular file already
CollidingFiles(pkg) ==
    {f \in sandbox[pkg] :
        /\ f.kind = "file"
        /\ ~CaseInsensitiveAsciiEquals(Filename(f.path), CONTROL_NAME)
        /\ ~CaseInsensitiveAsciiEquals(Filename(f.path), BUILD_INFO_NAME)
        /\ IsFileIn(installed, TripletOf(pkg) \o Slash \o f.path)}

\* C21: when the copy loop starts and a regular file is already at the target
\* of a file of the sandbox, the install overwrites nothing and ends fatally:
\* it does not go on to write the listfile and return SUCCESS.
C21_ExistingFileIsFatal ==
    [][pc = "inst_fw_half" /\ pc' \notin {"inst_fw_half", "inst_fi_half", "terminated"}
          /\ CollidingFiles(cur) # {} =>
             pc' = "fatal" /\ installed' = installed]_vars

\* the installed packages whose listfile has the line of a file of the
\* sandbox of the package, under the package's own triplet
OwnersOfSandboxFile(pkg, pgh_and_files) ==
    {t \in pgh_and_files :
        \E f \in sandbox[pkg] :
           f.kind = "file" /\ (TripletOf(t.pkg) \o Slash \o f.path) \in Range(t.files)}

\* C22: the conflict scan returns FILE_CONFLICTS exactly when an installed
\* package of the same triplet lists a file path of the sandbox; a package of
\* another triplet that lists the same relative path never causes it.
C22_ScanWithinTriplet ==
    call.fn = "install_package" /\ call.at # "start" =>
       (call.at = "FILE_CONFLICTS" <=>
           \E t \in OwnersOfSandboxFile(call.pkg, call.pgh_and_files) :
              TripletOf(t.pkg) = TripletOf(call.pkg))

C22_Witness ==
    /\ call.fn = "install_package" /\ call.at = "half_installed"
    /\ call.pkg = "p"
    /\ \E t \in OwnersOfSandboxFile("p", call.pgh_and_files) : t.pkg = "s"

\* the VS2017 instances of the machine that have vcvarsall.bat and a dumpbin.exe
CompleteVersions ==
    {v \in call.versions :
        /\ VcvarsallBat(InstallationPath(v)) \in call.files
        /\ \E d \in MsvcSubdirectories(InstallationPath(v)) : DumpbinPath(d) \in call.files}

\* how new a toolset is: v140 is older than every v141, and a v141 toolset is
\* as new as the VS2017 instance its vcvarsall.bat belongs to
Newness(toolset) ==
    IF toolset.version = V_140 THEN 0
    ELSE CHOOSE v \in InstanceVersions : toolset.vcvarsall = VcvarsallBat(InstallationPath(v))

\* C23: the list discovery returns is never empty and has the newest toolset
\* last, and get_toolset with an empty version returns the newest toolset of
\* the machine: the v141 toolset of the newest complete VS2017 instance when
\* there is one, the v140 toolset otherwise.
C23_NewestToolsetLast ==
    call.fn = "get_toolset" =>
       /\ call.at \in {"found", "returned"} =>
             /\ call.found_toolsets # <<>>
             /\ \A i, j \in 1..Len(call.found_toolsets) :
                   i < j => Newness(call.found_toolsets[i]) <= Newness(call.found_toolsets[j])
       /\ call.at = "returned" /\ call.toolset_version = "" =>
             IF CompleteVersions # {}
             THEN /\ call.ret.version = V_141
                  /\ \A v \in CompleteVersions : v <= Newness(call.ret)
             ELSE call.ret.version = V_140

\* C30: a pass of the loop over the VS2017 instances adds nothing, or adds one
\* v141 toolset whose vcvarsall.bat and dumpbin.exe exist and lie below the
\* installation path of the instance of that pass.
C30_ToolsetOfThatInstance ==
    [][call.fn = "get_toolset" /\ call.at = "vs2017" /\ call'.at = "vs2017" =>
          LET instance == call.vs2017_installation_instances[call.i + 1]
              added == call'.found_toolsets[Len(call'.found_toolsets)]
          IN \/ call'.found_toolsets = call.found_toolsets
             \/ /\ call'.found_toolsets = Append(call.found_toolsets, added)
                /\ added.version = V_141
                /\ added.vcvarsall = VcvarsallBat(instance)
                /\ added.vcvarsall \in call.files
                /\ added.dumpbin \in call.files
                /\ \E d \in MsvcSubdirectories(instance) : added.dumpbin = DumpbinPath(d)]_vars

\* the executor run is over: the loop ended or the run stopped at a failure
RunOver == pc \in {"exit_success", "exit_fail"}

\* the plan holds install actions only, and each of them comes after an
\* install action (of any plan type) for every package of its depends
CompleteInstallPlan ==
    \A i \in 1..Len(action_plan) :
       /\ action_plan[i].kind = "install"
       /\ \A d \in Depends(action_plan[i].pkg) : Earlier(action_plan, i, "install", d)

\* C24: after an executor run over a complete plan of install actions every
\* package recorded INSTALLED has each package of its depends recorded
\* INSTALLED for the same triplet.
C24_InstalledHasDependencies ==
    RunOver /\ CompleteInstallPlan =>
       \A x \in Pkgs :
          status_db[<<x, "">>] = InstalledRecord =>
             \A d \in Depends(x) : status_db[<<d, "">>] = InstalledRecord

\* C27: the install command exits with code 0 only when every install action
\* of the plan returned SUCCEEDED; with keep_going and a result that is not
\* SUCCEEDED the exit code is not 0.
C27_ExitZeroOnlyIfAllSucceeded ==
    pc = "exit_success" =>
       \A i \in 1..Len(action_plan) :
          action_plan[i].kind = "install" => results[i] = "SUCCEEDED"

\* the listfile of a package has been written
ListfileWritten(pkg) == listfiles[pkg] # <<>>

\* C25: in every state, also one at which the process may be interrupted, a
\* core record in state INSTALLED, in the status database or in the journal,
\* has its listfile written.
C25_InstalledHasListfile ==
    \A x \in Pkgs :
       \/ status_db[<<x, "">>] = InstalledRecord
       \/ Journaled(updates, <<x, "">>) = InstalledRecord
       => ListfileWritten(x)

C25_Witness ==
    /\ pc = "inst_i_inst"
    /\ snap.listfiles[cur] = <<>>
    /\ Journaled(updates, <<cur, "">>) = InstalledRecord
    /\ status_db[<<cur, "">>] = HalfInstalledRecord
    /\ ListfileWritten(cur)

\* the entries of the sandbox the copy loop does not skip by their file name
EntriesToInstall(pkg) ==
    {f \in sandbox[pkg] :
        ~(/\ f.kind = "file"
          /\ \/ CaseInsensitiveAsciiEquals(Filename(f.path), CONTROL_NAME)
             \/ CaseInsensitiveAsciiEquals(Filename(f.path), BUILD_INFO_NAME))}

\* C26: when install_package returns SUCCESS, and the package is INSTALLED,
\* every regular file of the sandbox that is not a control file is in the
\* prefix as the package's file, every directory of the sandbox is in the
\* prefix, and every line of the listfile names a path that is in the prefix.
C26_SuccessMeansCopied ==
    InstallSucceeded /\ status_db[<<cur, "">>] = InstalledRecord =>
       /\ \A f \in EntriesToInstall(cur) :
             LET target == TripletOf(cur) \o Slash \o f.path
             IN IF f.kind = "dir"
                THEN IsDirIn(installed, target)
                ELSE \E e \in installed :
                        e.path = target /\ e.kind = "file" /\ e.content = cur
       /\ \A line \in Range(listfiles[cur]) : LineInstalled(cur, line)

\* the install command has not entered perform_and_exit_ex
BeforeExecutor == DOMAIN call # {}

HasRemoveAction == \E i \in 1..Len(action_plan) : action_plan[i].kind = "remove"

\* nothing was removed, built, copied, listed or journaled since the command
\* started
NothingPerformed ==
    /\ counter = 0 /\ results = <<>>
    /\ status_db = snap.status_db /\ updates = snap.updates
    /\ installed = snap.installed /\ listfiles = snap.listfiles
    /\ sandbox = snap.sandbox /\ children = 0

C29_DryRunPerformsNothing ==
    /\ [](BeforeExecutor /\ call.dry_run =>
             /\ pc \in {"print_plan", "printed", "exit_success", "exit_fail", "terminated"}
             /\ NothingPerformed
             /\ pc = "exit_success" => ~(HasRemoveAction /\ ~call.is_recursive)
             /\ pc = "exit_fail" => HasRemoveAction /\ ~call.is_recursive)
    /\ [][pc = "printed" /\ call.dry_run /\ pc' # "terminated" =>
             pc' = "exit_success"]_vars

C29_Witness ==
    /\ BeforeExecutor /\ call.dry_run
    /\ pc = "exit_success"
    /\ \E i \in 1..Len(action_plan) : action_plan[i].plan_type = "BUILD_AND_INSTALL"

====
